---- MODULE Spec2Model ----
(***************************************************************************)
(* A model of the variant families of some-types (Option, Result,          *)
(* RemoteData): the runtime representation of their values, the type       *)
(* guards, the conversions between the families, the ifType combinators,   *)
(* consolidate, encase and encasePromise.                                  *)
(*                                                                         *)
(* JavaScript values are records tagged by their type.  Objects live on a  *)
(* heap and are referred to by identity; the symbols are compared by       *)
(* identity as well.  Every library function is an operator computed the   *)
(* way the source computes it; every action is one call of a library       *)
(* function by a client, on inputs drawn from the values of the state.     *)
(***************************************************************************)
EXTENDS Integers, Sequences, FiniteSets, TLC

VARIABLES
    heap,     \* the objects allocated so far; an object's identity is its index
    op,       \* the library function the client is in ("idle": in none)
    x,        \* its first argument
    y,        \* its second argument, when that is a value
    pattern,  \* the keys of the pattern object passed to caseOf / match
    fn,       \* the behaviour of the function passed to it (or Absent)
    handler,  \* the behaviour of the optional onThrow / onReject (or Absent)
    out,      \* the completion of the call: a returned or a thrown value
    calls,    \* the invocations of client functions the call made, in order
    verdict,  \* the type guards that answered true for x (op = "isType")
    p,        \* the input promise of encasePromise
    q,        \* the promise encasePromise returned
    pc,       \* the position of the async function: idle, awaiting, done
    dogImageRequest,  \* the request the README example tracks
    race,     \* the promise Promise.race returned inside fromPromise
    jobs      \* the promise reaction jobs waiting to run, in order

vars == <<heap, op, x, y, pattern, fn, handler, out, calls, verdict, p, q, pc,
         dogImageRequest, race, jobs>>

-----------------------------------------------------------------------------
(* Bounds of the model *)

MaxObjects == 2     \* objects a behaviour allocates
MaxLen == 2         \* length of the arrays passed to consolidate

-----------------------------------------------------------------------------
(* JavaScript values *)

Undefined == [t |-> "undefined"]
Null == [t |-> "null"]
Num(n) == [t |-> "number", n |-> n]
Str(s) == [t |-> "string", s |-> s]
Bool(b) == [t |-> "boolean", b |-> b]
Sym(k, d) == [t |-> "symbol", id |-> k, desc |-> d]
Ref(i) == [t |-> "object", id |-> i]
Arr(s) == [t |-> "array", elems |-> s]

\* export const value: NotAsked = Symbol("NotAsked")
NotAsked_value == Sym(1, "NotAsked")

\* export const value: Loading = Symbol("Loading")
Loading_value == Sym(2, "Loading")

\* export const value: None = undefined
None_value == Undefined

\* A symbol made by a client, with the description of a library symbol.
ClientSymbol == Sym(3, "Loading")

Prims == {Undefined, Num(0), NotAsked_value, Loading_value, ClientSymbol}

\* The values a client can pass in a state: the primitives and the objects.
Values == Prims \cup {Ref(i) : i \in 1..Len(heap)}

-----------------------------------------------------------------------------
(* Objects and instanceof *)

Obj(c, m, d) == [cls |-> c, message |-> m, data |-> d]

\* The prototype chain of the instances of a class.
ProtoChain(c) ==
    CASE c = "Error" -> {"Error", "Object"}
      [] c = "DataError" -> {"DataError", "Error", "Object"}
      [] c = "TypeError" -> {"TypeError", "Error", "Object"}
      [] c = "ErrorValue" -> {"ErrorValue", "Error", "Object"}
      [] c = "RangeError" -> {"RangeError", "Error", "Object"}
      [] OTHER -> {"Object"}

\* v instanceof C
InstanceOf(v, C) == v.t = "object" /\ C \in ProtoChain(heap[v.id].cls)

\* new Error(message): an omitted message gives the empty string.
NewError(message) ==
    Obj("Error", IF message = Undefined THEN "" ELSE message.s, Undefined)

DefaultDataErrorMessage == "This Error contains details in the 'data' field"

\* new DataError(data, message)
NewDataError(data, message) ==
    Obj("DataError",
        IF message = Undefined \/ message = Null
        THEN DefaultDataErrorMessage ELSE message.s,
        data)

-----------------------------------------------------------------------------
(* Completions, and the behaviour of client functions *)

Ret(v) == [type |-> "return", value |-> v]
Throw(v) == [type |-> "throw", value |-> v]

\* The result of evaluating a library function: its completion, the client
\* functions it invoked, and the objects it allocated (appended to the heap).
Eval(c, cs, al) == [out |-> c, calls |-> cs, alloc |-> al]
Pure(v) == Eval(Ret(v), <<>>, <<>>)

Absent == [kind |-> "absent"]
Returns(v) == [kind |-> "return", v |-> v]
Throws(v) == [kind |-> "throw", v |-> v]

\* The client functions: each returns or throws one of the values.
Fns == {Returns(v) : v \in Values} \cup {Throws(v) : v \in Values}

\* f(a), f a client function named n.
Call(n, f, a) ==
    Eval(IF f.kind = "return" THEN Ret(f.v) ELSE Throw(f.v),
         <<[fn |-> n, arg |-> a]>>, <<>>)

-----------------------------------------------------------------------------
(* Type guards *)

Some_isType(a) == a # Undefined

None_isType(a) == a = Undefined

Ok_isType(a) == ~InstanceOf(a, "Error")

Err_isType(a) == InstanceOf(a, "Error")

NotAsked_isType(a) == a = NotAsked_value

Loading_isType(a) == a = Loading_value

\* Variant: a guard that accepts only the errors that carry data.
Failure_isType_dataErrorOnly(a) == InstanceOf(a, "DataError")

Failure_isType(a) == InstanceOf(a, "Error")

\* Variant: Success.isType without the Failure test.
Success_isType_noFailureTest(a) == ~NotAsked_isType(a) /\ ~Loading_isType(a)

Success_isType(a) ==
    ~NotAsked_isType(a) /\ ~Loading_isType(a) /\ ~Failure_isType(a)

Guards == {"isSome", "isNone", "isOk", "isErr",
           "isNotAsked", "isLoading", "isSuccess", "isFailure"}

Guard(g, a) ==
    CASE g = "isSome" -> Some_isType(a)
      [] g = "isNone" -> None_isType(a)
      [] g = "isOk" -> Ok_isType(a)
      [] g = "isErr" -> Err_isType(a)
      [] g = "isNotAsked" -> NotAsked_isType(a)
      [] g = "isLoading" -> Loading_isType(a)
      [] g = "isSuccess" -> Success_isType(a)
      [] g = "isFailure" -> Failure_isType(a)

-----------------------------------------------------------------------------
(* Conversions between the families *)

\* RemoteData.fromResult(x): return x as RemoteData<...>
RemoteData_fromResult(a) == a

\* Result.toRemoteData(x): return x as RemoteData<...>
Result_toRemoteData(a) == a

\* Variant: isCompleted that tests NotAsked alone.
RemoteData_isCompleted_forgetLoading(a) == ~NotAsked_isType(a)

\* Variant: only a Success counts as completed.
RemoteData_isCompleted_successOnly(a) == Success_isType(a)

\* RemoteData.isCompleted(x)
RemoteData_isCompleted(a) == ~NotAsked_isType(a) /\ ~Loading_isType(a)

\* Variant: toResult that keeps a Success alone.
RemoteData_toResult_successOnly(a) == IF Success_isType(a) THEN a ELSE Undefined

\* RemoteData.toResult(x)
RemoteData_toResult(a) == IF RemoteData_isCompleted(a) THEN a ELSE Undefined

\* Result.fromRemoteData(x)
Result_fromRemoteData(a) == IF RemoteData_isCompleted(a) THEN a ELSE Undefined

\* Option.fromResult(x)
Option_fromResult(a) == IF Ok_isType(a) THEN a ELSE Undefined

\* Result.toOption(x)
Result_toOption(a) == IF Ok_isType(a) THEN a ELSE Undefined

\* Variant: fromOption that tests x for truthiness, so that 0 is replaced.
Result_fromOption_truthy(a, e) ==
    IF Some_isType(a) /\ a # Num(0) THEN a ELSE e

\* Result.fromOption(x, e)
Result_fromOption(a, e) == IF Some_isType(a) THEN a ELSE e

\* Option.toResult(x, e)
Option_toResult(a, e) == IF Some_isType(a) THEN a ELSE e

\* Not-a-Number, the number that is falsy as 0 is.
NaN == [t |-> "number", nan |-> TRUE]

\* ToBoolean(v) of ECMAScript, as !!v applies it.
ToBoolean(v) ==
    CASE v.t = "undefined" -> FALSE
      [] v.t = "null" -> FALSE
      [] v.t = "boolean" -> v.b
      [] v.t = "number" -> IF v = NaN THEN FALSE ELSE v.n # 0
      [] v.t = "string" -> v.s # ""
      [] OTHER -> TRUE

\* v == null: true of null and undefined alone.
LooselyEqualsNull(v) == v.t \in {"null", "undefined"}

\* Option.fromNullable(x)
Option_fromNullable(a) == IF LooselyEqualsNull(a) THEN None_value ELSE a

\* Variant: fromFalsy that replaces null and undefined alone.
Option_fromFalsy_nullish(a) == IF LooselyEqualsNull(a) THEN None_value ELSE a

\* Option.fromFalsy(x)
Option_fromFalsy(a) == IF ToBoolean(a) THEN a ELSE None_value

\* Variant: toOption that keeps every completed value, a Failure too.
RemoteData_toOption_completed(a) ==
    IF RemoteData_isCompleted(a) THEN a ELSE Undefined

\* RemoteData.toOption(x)
RemoteData_toOption(a) == IF Success_isType(a) THEN a ELSE Undefined

\* Option.fromRemoteData(x)
Option_fromRemoteData(a) == IF Success_isType(a) THEN a ELSE Undefined

\* RemoteData.fromOption(x)
RemoteData_fromOption(a) == IF None_isType(a) THEN NotAsked_value ELSE a

\* Option.toRemoteData(x)
Option_toRemoteData(a) == IF None_isType(a) THEN NotAsked_value ELSE a

-----------------------------------------------------------------------------
(* The ifType combinators *)

\* Variant: ifSome that applies fn before it tests x.
Some_ifType_eager(a, f) ==
    LET r == Call("fn", f, a)
    IN  IF Some_isType(a) THEN r ELSE Eval(Ret(Undefined), r.calls, <<>>)

\* Option.ifSome(x, fn)
Some_ifType(a, f) == IF Some_isType(a) THEN Call("fn", f, a) ELSE Pure(Undefined)

\* Result.ifOk(a, fn)
Ok_ifType(a, f) == IF Ok_isType(a) THEN Call("fn", f, a) ELSE Pure(a)

\* Variant: ifErr that answers undefined for an Ok, as ifSome does for None.
Err_ifType_dropsOk(a, f) ==
    IF Err_isType(a) THEN Call("fn", f, a) ELSE Pure(Undefined)

\* Result.ifErr(a, fn)
Err_ifType(a, f) == IF Err_isType(a) THEN Call("fn", f, a) ELSE Pure(a)

\* Variant: ifSuccess that catches what fn throws and returns it.
Success_ifType_catching(a, f) ==
    LET r == Call("fn", f, a)
    IN  IF ~Success_isType(a) THEN Pure(a)
        ELSE IF r.out.type = "throw" THEN Eval(Ret(r.out.value), r.calls, <<>>)
        ELSE r

\* RemoteData.ifSuccess(a, fn)
Success_ifType(a, f) == IF Success_isType(a) THEN Call("fn", f, a) ELSE Pure(a)

\* RemoteData.ifFailure(a, fn)
Failure_ifType(a, f) == IF Failure_isType(a) THEN Call("fn", f, a) ELSE Pure(a)

-----------------------------------------------------------------------------
(* DataError *)

\* DataError.isDataError(x)
DataError_isDataError(a) == InstanceOf(a, "DataError")

\* Variant: fromError that leaves the default message on the new object.
DataError_fromError_defaultMessage(e, data) == NewDataError(data, Undefined)

\* DataError.fromError(e, data): the object it builds.  The new DataError
\* has the default message until e.message is assigned to it.
DataError_fromError(e, data) ==
    [NewDataError(data, Undefined) EXCEPT !.message = heap[e.id].message]

\* DataError.map(e, fn): fn(e.data) is evaluated first; if it throws, no
\* object is built.
DataError_map(e, f) ==
    LET r == Call("fn", f, heap[e.id].data)
    IN  IF r.out.type = "throw" THEN r
        ELSE Eval(Ret(Ref(Len(heap) + 1)), r.calls,
                  <<DataError_fromError(e, r.out.value)>>)

-----------------------------------------------------------------------------
(* caseOf and match.  A pattern object is the set ks of its keys; all its   *)
(* handlers behave as f.  A handler called without argument is recorded     *)
(* with the argument undefined.                                             *)

\* (pattern as any)["default"](): a missing default is no function.
CallDefault(ks, f) ==
    IF "default" \in ks THEN Call("default", f, Undefined)
    ELSE Eval(Throw(Ref(Len(heap) + 1)), <<>>,
              <<Obj("TypeError", "pattern.default is not a function",
                    Undefined)>>)

\* Option.caseOf(x, pattern)
Option_caseOf(a, ks, f) ==
    IF Some_isType(a) /\ "Some" \in ks THEN Call("Some", f, a)
    ELSE IF None_isType(a) /\ "None" \in ks THEN Call("None", f, Undefined)
    ELSE CallDefault(ks, f)

\* Result.caseOf(x, pattern)
Result_caseOf(a, ks, f) ==
    IF Ok_isType(a) /\ "Ok" \in ks THEN Call("Ok", f, a)
    ELSE IF Err_isType(a) /\ "Err" \in ks THEN Call("Err", f, a)
    ELSE CallDefault(ks, f)

\* Variant: match that prefers the default handler when there is one.
RemoteData_match_defaultFirst(a, ks, f) ==
    IF "default" \in ks THEN Call("default", f, Undefined)
    ELSE IF NotAsked_isType(a) THEN Call("NotAsked", f, Undefined)
    ELSE IF Loading_isType(a) THEN Call("Loading", f, Undefined)
    ELSE IF Success_isType(a) THEN Call("Success", f, a)
    ELSE Call("Failure", f, a)

\* RemoteData.match(x, pattern)
RemoteData_match(a, ks, f) ==
    IF NotAsked_isType(a) /\ "NotAsked" \in ks
    THEN Call("NotAsked", f, Undefined)
    ELSE IF Loading_isType(a) /\ "Loading" \in ks
    THEN Call("Loading", f, Undefined)
    ELSE IF Success_isType(a) /\ "Success" \in ks
    THEN Call("Success", f, a)
    ELSE IF Failure_isType(a) /\ "Failure" \in ks
    THEN Call("Failure", f, a)
    ELSE CallDefault(ks, f)

-----------------------------------------------------------------------------
(* consolidate *)

\* Array.prototype.find: the first element whose index is in sat (the
\* elements that satisfy the callback), or undefined.
ArrayFind(xs, sat) ==
    IF sat = {} THEN Undefined
    ELSE xs[CHOOSE i \in sat : \A j \in sat : i <= j]

RECURSIVE ArrayFilterFrom(_, _, _)
ArrayFilterFrom(xs, sat, i) ==
    IF i > Len(xs) THEN <<>>
    ELSE (IF i \in sat THEN <<xs[i]>> ELSE <<>>)
             \o ArrayFilterFrom(xs, sat, i + 1)

\* Array.prototype.filter: a new array of the elements whose index is in sat.
ArrayFilter(xs, sat) == ArrayFilterFrom(xs, sat, 1)

\* The indices of the elements of xs a callback accepts.
Errs(xs) == {i \in 1..Len(xs) : Err_isType(xs[i])}
Oks(xs) == {i \in 1..Len(xs) : Ok_isType(xs[i])}
Successes(xs) == {i \in 1..Len(xs) : Success_isType(xs[i])}
NonSuccesses(xs) == {i \in 1..Len(xs) : ~Success_isType(xs[i])}
Failures(xs) == {i \in 1..Len(xs) : Failure_isType(xs[i])}
Somes(xs) == {i \in 1..Len(xs) : Some_isType(xs[i])}

\* Variant: consolidate that returns the last Err.
Result_consolidate_lastErr(xs) ==
    LET errs == Errs(xs)
    IN  IF errs # {} THEN xs[CHOOSE i \in errs : \A j \in errs : i >= j]
        ELSE Arr(ArrayFilter(xs, Oks(xs)))

\* Result.consolidate(xs)
Result_consolidate(xs) ==
    LET firstErr == ArrayFind(xs, Errs(xs))
    IN  IF firstErr # Undefined THEN firstErr
        ELSE Arr(ArrayFilter(xs, Oks(xs)))

\* Variant: consolidate that prefers a Failure to an earlier sentinel.
RemoteData_consolidate_failureFirst(xs) ==
    LET firstFailure == ArrayFind(xs, Failures(xs))
        firstNonSuccess == ArrayFind(xs, NonSuccesses(xs))
    IN  IF firstFailure # Undefined THEN firstFailure
        ELSE IF firstNonSuccess # Undefined THEN firstNonSuccess
        ELSE Arr(ArrayFilter(xs, Successes(xs)))

\* RemoteData.consolidate(xs)
RemoteData_consolidate(xs) ==
    LET firstNonSuccess == ArrayFind(xs, NonSuccesses(xs))
    IN  IF firstNonSuccess # Undefined THEN firstNonSuccess
        ELSE Arr(ArrayFilter(xs, Successes(xs)))

\* Variant: consolidate that returns the Somes it found.
Option_consolidate_partial(xs) == Arr(ArrayFilter(xs, Somes(xs)))

\* Option.consolidate(xs)
Option_consolidate(xs) ==
    LET someVals == ArrayFilter(xs, Somes(xs))
    IN  IF Len(someVals) = Len(xs) THEN Arr(someVals) ELSE None_value

-----------------------------------------------------------------------------
(* String conversion and encase *)

\* Number::toString, for the numbers of the model.
NumberToString(n) ==
    CASE n = 0 -> "0"
      [] n = 1 -> "1"
      [] n = 2 -> "2"
      [] n = 3 -> "3"
      [] n = 4 -> "4"
      [] n = 5 -> "5"
      [] n = 6 -> "6"
      [] n = 7 -> "7"
      [] n = 8 -> "8"
      [] n = 9 -> "9"

\* ToString(v) of ECMAScript, as `${v}` applies it: a completion.  A symbol
\* has no string conversion: ToString throws a TypeError.
ToStringJS(v) ==
    CASE v.t = "undefined" -> Ret("undefined")
      [] v.t = "null" -> Ret("null")
      [] v.t = "boolean" -> Ret(IF v.b THEN "true" ELSE "false")
      [] v.t = "number" -> Ret(NumberToString(v.n))
      [] v.t = "string" -> Ret(v.s)
      [] v.t = "symbol" -> Throw("TypeError")
      [] v.t = "object" ->
            LET o == heap[v.id]
            IN  IF "Error" \in ProtoChain(o.cls)
                THEN Ret(IF o.message = "" THEN o.cls
                         ELSE o.cls \o ": " \o o.message)
                ELSE Ret("[object Object]")

\* err(`${prefix}${e}`): the interpolation throws, or the Error is built.
ErrOfInterpolated(prefix, e) ==
    LET str == ToStringJS(e)
    IN  IF str.type = "throw"
        THEN Eval(Throw(Ref(Len(heap) + 1)), <<>>,
                  <<Obj("TypeError",
                        "Cannot convert a Symbol value to a string",
                        Undefined)>>)
        ELSE Eval(Ret(Ref(Len(heap) + 1)), <<>>,
                  <<NewError(Str(prefix \o str.value))>>)

\* What the catch block of encase / encasePromise does with the caught e,
\* isError being the answer of the family's guard for error objects on e.
OnCaught(prefix, h, e, isError) ==
    IF h # Absent
    THEN Call("handler", h, e)
    ELSE IF isError
    THEN Pure(e)
    ELSE ErrOfInterpolated(prefix, e)

\* The evaluation of `first` followed by that of `then`.
AndThen(first, then) ==
    Eval(then.out, first.calls \o then.calls, first.alloc \o then.alloc)

\* Result.encase(fn, onThrow?)(arg)
Result_encase(f, h, a) ==
    LET r == Call("fn", f, a)
    IN  IF r.out.type = "return" THEN r
        ELSE AndThen(r, OnCaught("caught thrown value ", h, r.out.value,
                                 Err_isType(r.out.value)))

\* Variant: encase that returns a thrown Error, as Result.encase does.
Option_encase_keepsError(f, a) ==
    LET r == Call("fn", f, a)
    IN  IF r.out.type = "return" THEN r
        ELSE Eval(Ret(IF Err_isType(r.out.value) THEN r.out.value
                      ELSE None_value), r.calls, <<>>)

\* Option.encase(fn)(arg)
Option_encase(f, a) ==
    LET r == Call("fn", f, a)
    IN  IF r.out.type = "return" THEN r
        ELSE Eval(Ret(None_value), r.calls, <<>>)

\* The body of an async function after `await p`, p settled as ps:
\* Option.encasePromise(p)
Option_encasePromise(ps) ==
    IF ps.state = "fulfilled" THEN Pure(ps.value) ELSE Pure(None_value)

\* Result.encasePromise(p, onReject?)
Result_encasePromise(ps, h) ==
    IF ps.state = "fulfilled" THEN Pure(ps.value)
    ELSE OnCaught("caught rejected value ", h, ps.value,
                  Err_isType(ps.value))

\* RemoteData.encasePromise(p, onReject?)
RemoteData_encasePromise(ps, h) ==
    IF ps.state = "fulfilled" THEN Pure(ps.value)
    ELSE OnCaught("caught rejected value ", h, ps.value,
                  Failure_isType(ps.value))

\* Variant: an await that goes on before the promise has settled.
Awaited_eager(ps) == ps.state # "none"

\* `await p` is over: the function resumes once p has settled, never before.
Awaited(ps) == ps.state \in {"fulfilled", "rejected"}

\* The settlement of the promise an async function returned, from the
\* completion of its body.
Settled(c) ==
    [state |-> IF c.type = "return" THEN "fulfilled" ELSE "rejected",
     value |-> c.value]

-----------------------------------------------------------------------------
(* The README example: getDogImage *)

\* A parsed JSON payload with the fields status, message and code (a field
\* the payload lacks is undefined).
Json(status, message, code) ==
    [t |-> "json", status |-> status, message |-> message, code |-> code]

\* The object literal { message, code } passed to failureData.
DogErrorData(message, code) ==
    [t |-> "literal", message |-> message, code |-> code]

\* json.status, json.message, json.code: a completion, for null and
\* undefined have no properties.
GetField(v, field) ==
    IF v.t \in {"null", "undefined"} THEN Throw("TypeError")
    ELSE IF v.t = "json" THEN Ret(v[field])
    ELSE Ret(Undefined)

\* Success.of(d): return d
Success_of(d) == d

RequestFailed == DogErrorData(Str("Request failed"), Undefined)

\* Variant: getDogImage without the catch block.
GetDogImage_afterAwait_noCatch(ps) ==
    IF ps.state = "fulfilled" /\ GetField(ps.value, "status").type = "return"
    THEN IF GetField(ps.value, "status").value = Str("success")
         THEN [request |-> Success_of(GetField(ps.value, "message").value),
               out |-> Ret(Undefined), alloc |-> <<>>]
         ELSE [request |-> Ref(Len(heap) + 1), out |-> Ret(Undefined),
               alloc |-> <<NewDataError(
                   DogErrorData(GetField(ps.value, "message").value,
                                GetField(ps.value, "code").value),
                   Undefined)>>]
    ELSE [request |-> Loading_value, out |-> Throw(ps.value), alloc |-> <<>>]

\* The body of getDogImage after `await fetchDogImage()`, the fetch settled
\* as ps: the new value of dogImageRequest, the completion of the body and
\* the object it allocated.
GetDogImage_afterAwait(ps) ==
    IF ps.state = "fulfilled" /\ GetField(ps.value, "status").type = "return"
    THEN IF GetField(ps.value, "status").value = Str("success")
         THEN [request |-> Success_of(GetField(ps.value, "message").value),
               out |-> Ret(Undefined), alloc |-> <<>>]
         ELSE [request |-> Ref(Len(heap) + 1), out |-> Ret(Undefined),
               alloc |-> <<NewDataError(
                   DogErrorData(GetField(ps.value, "message").value,
                                GetField(ps.value, "code").value),
                   Undefined)>>]
    ELSE [request |-> Ref(Len(heap) + 1), out |-> Ret(Undefined),
          alloc |-> <<NewDataError(RequestFailed, Undefined)>>]

-----------------------------------------------------------------------------
(* Timestamp *)

\* The numbers that are not finite, besides NaN.
Infinity == [t |-> "number", inf |-> 1]
NegInfinity == [t |-> "number", inf |-> -1]

\* isNaN(n), n a number
IsNaN(n) == n = NaN

\* newDate(d).valueOf(), d a number: the time value of new Date(d), which is
\* NaN when d is not finite (or beyond the range of Date, which no finite
\* number of the model is) and d otherwise.
DateValueOf(d) == IF d \in {NaN, Infinity, NegInfinity} THEN NaN ELSE d

\* parse(d), d a number:
\* isNaN(date.valueOf()) ? undefined : date.valueOf()
Timestamp_parse(d) ==
    IF IsNaN(DateValueOf(d)) THEN Undefined ELSE DateValueOf(d)

\* timestamp(d): t = parse(d); if (t !== undefined) return t;
\* else throw new RangeError("value must encode a valid date")
Timestamp_timestamp(d) ==
    IF Timestamp_parse(d) # Undefined THEN Pure(Timestamp_parse(d))
    ELSE Eval(Throw(Ref(Len(heap) + 1)), <<>>,
              <<Obj("RangeError", "value must encode a valid date",
                    Undefined)>>)

\* isTimestamp(t) = typeof t === "number" && !isNaN(timestamp(t)); an
\* exception of timestamp(t) is the exception of isTimestamp(t).
Timestamp_isTimestamp(t) ==
    IF t.t # "number" THEN Pure(Bool(FALSE))
    ELSE IF Timestamp_timestamp(t).out.type = "throw" THEN Timestamp_timestamp(t)
    ELSE Pure(Bool(~IsNaN(Timestamp_timestamp(t).out.value)))

\* coerceTimestamp(t): if (isTimestamp(t)) return t;
\* throw new Error("Expected a timestamp for a valid Date object")
Timestamp_coerceTimestamp(t) ==
    IF Timestamp_isTimestamp(t).out.type = "throw" THEN Timestamp_isTimestamp(t)
    ELSE IF Timestamp_isTimestamp(t).out.value.b THEN Pure(t)
    ELSE Eval(Throw(Ref(Len(heap) + 1)), <<>>,
              <<Obj("Error", "Expected a timestamp for a valid Date object",
                    Undefined)>>)

-----------------------------------------------------------------------------
(* Tuple.zip and Tuple.unzip.  An array is Arr(s), s the sequence of its
   elements; JavaScript's index i is the position i + 1 of s. *)

\* s[i] of JavaScript: undefined beyond the end of the array.
Index(s, i) == IF i \in 1..Len(s) THEN s[i] ELSE Undefined

\* Math.min(...) of the lengths of the arrays as
MinLength(as) ==
    CHOOSE n \in {Len(as[k]) : k \in 1..Len(as)} :
        \A k \in 1..Len(as) : n <= Len(as[k])

RECURSIVE ZipLoop(_, _, _)
\* for (let i = 0; i < len; i++) res[i] = [a[i], b[i], c[i]]: the elements
\* of res from position i on, as being the arrays the branch reads.
ZipLoop(as, len, i) ==
    IF i > len THEN <<>>
    ELSE <<Arr([k \in 1..Len(as) |-> Index(as[k], i)])>>
             \o ZipLoop(as, len, i + 1)

\* Variant: a zip that runs to the length of its first array.
Tuple_zip_firstLength(args) ==
    IF Len(args) = 0 THEN <<>> ELSE ZipLoop(args, Len(args[1]), 1)

\* zip(a?, b?, c?), args the arrays passed: the three branches
\* `a && b && c`, `a && b` and `a` (an array is truthy, a missing argument
\* is undefined), and res = [] when none is passed.
Tuple_zip(args) ==
    IF Len(args) >= 3
    THEN ZipLoop(SubSeq(args, 1, 3), MinLength(SubSeq(args, 1, 3)), 1)
    ELSE IF Len(args) >= 2 THEN ZipLoop(args, MinLength(args), 1)
    ELSE IF Len(args) >= 1 THEN ZipLoop(args, Len(args[1]), 1)
    ELSE <<>>

\* Variant: an unzip without the test of tuples[0], for tuples of arity 2.
Tuple_unzip_pairs(tuples) ==
    [k \in 1..2 |-> Arr([j \in 1..Len(tuples) |-> Index(tuples[j].elems, k)])]

\* unzip(tuples): [] when tuples[0] === undefined; otherwise one array per
\* element of the first tuple, [x], to which the element of the same index
\* of each later tuple is pushed.
Tuple_unzip(tuples) ==
    IF Index(tuples, 1) = Undefined THEN <<>>
    ELSE LET firstTuple == tuples[1].elems
             rest == Tail(tuples)
         IN  [k \in 1..Len(firstTuple) |->
                 Arr(<<firstTuple[k]>> \o
                     [j \in 1..Len(rest) |-> Index(rest[j].elems, k)])]

-----------------------------------------------------------------------------
(* orThrow *)

\* Variant: an orThrow that returns every completed value.
RemoteData_orThrow_completed(a) ==
    IF RemoteData_isCompleted(a) THEN Ret(a) ELSE Throw(a)

\* RemoteData.orThrow: if (isSuccess(x)) return x; else throw x;
RemoteData_orThrow(a) == IF Success_isType(a) THEN Ret(a) ELSE Throw(a)

\* Result.orThrow: if (isOk(x)) return x; else throw x;
Result_orThrow(a) == IF Ok_isType(a) THEN Ret(a) ELSE Throw(a)

-----------------------------------------------------------------------------
(* AsyncData, the revision whose Failure is an ErrorValue *)

\* const NotAsked: unique symbol = Symbol("NotAsked")
AsyncData_NotAsked == Sym(4, "NotAsked")

\* const Loading: unique symbol = Symbol("Loading")
AsyncData_Loading == Sym(5, "Loading")

\* const Success = (d) => d
AsyncData_Success(d) == d

\* new ErrorValue(value): the value is kept in the field `value` (the data
\* field of the representation).
NewErrorValue(value) ==
    Obj("ErrorValue", "This Error contains data in the 'value' field", value)

\* function Failure(e) { return new ErrorValue(e) }
AsyncData_Failure(e) ==
    Eval(Ret(Ref(Len(heap) + 1)), <<>>, <<NewErrorValue(e)>>)

\* isNotAsked = x === NotAsked
AsyncData_isNotAsked(a) == a = AsyncData_NotAsked

\* isLoading = x === Loading
AsyncData_isLoading(a) == a = AsyncData_Loading

\* isErrorValue = x instanceof ErrorValue
isErrorValue(a) == InstanceOf(a, "ErrorValue")

\* isFailure = x instanceof Failure.  Failure is the constructor function
\* declared above; Failure.prototype is on the prototype chain of no object
\* the module creates (ProtoChain has no class with "Failure" in it).
AsyncData_isFailure(a) == InstanceOf(a, "Failure")

\* isSuccess = !isNotAsked(x) && !isLoading(x) && !isFailure(x)
AsyncData_isSuccess(a) ==
    ~AsyncData_isNotAsked(a) /\ ~AsyncData_isLoading(a) /\ ~AsyncData_isFailure(a)

\* isCompleted = isSuccess(x) || isFailure(x)
AsyncData_isCompleted(a) == AsyncData_isSuccess(a) \/ AsyncData_isFailure(a)

\* toMaybe = isSuccess(x) ? Maybe.Just(x) : Maybe.Nothing
AsyncData_toMaybe(a) == IF AsyncData_isSuccess(a) THEN a ELSE Undefined

\* mapFailure = (fn, x) => isFailure(x) ? fn(x) : x
AsyncData_mapFailure(f, a) ==
    IF AsyncData_isFailure(a) THEN Call("fn", f, a) ELSE Pure(a)

\* combine = (xs) => { firstNonSuccess = xs.find((x) => !isSuccess(x));
\*   successVals = xs.filter(isSuccess);
\*   return firstNonSuccess === undefined ? successVals : firstNonSuccess }
AsyncData_combine(xs) ==
    LET nonSuccesses == {i \in 1..Len(xs) : ~AsyncData_isSuccess(xs[i])}
        successes == {i \in 1..Len(xs) : AsyncData_isSuccess(xs[i])}
        firstNonSuccess == ArrayFind(xs, nonSuccesses)
    IN  IF firstNonSuccess = Undefined THEN Arr(ArrayFilter(xs, successes))
        ELSE firstNonSuccess

AsyncData_Guards ==
    {"isNotAsked", "isLoading", "isSuccess", "isFailure", "isCompleted"}

AsyncData_Guard(g, a) ==
    CASE g = "isNotAsked" -> AsyncData_isNotAsked(a)
      [] g = "isLoading" -> AsyncData_isLoading(a)
      [] g = "isSuccess" -> AsyncData_isSuccess(a)
      [] g = "isFailure" -> AsyncData_isFailure(a)
      [] g = "isCompleted" -> AsyncData_isCompleted(a)

\* The object fromPromise makes to race p against: const placeholder = {}.
\* It never leaves fromPromise; its identity is that of no other object.
Placeholder == Ref(0)

Fulfilled(v) == [state |-> "fulfilled", value |-> v]
Rejected(e) == [state |-> "rejected", value |-> e]

\* A promise reaction job: `kind` names the reaction, ps is the settlement
\* it is run with.
Job(kind, ps) == [kind |-> kind, settled |-> ps]

\* Variant: a race that looks at the placeholder before it looks at p.
RaceJobs_placeholderFirst(ps) ==
    <<Job("race", Fulfilled(Placeholder))>>
        \o (IF Awaited(ps) THEN <<Job("race", ps)>> ELSE <<>>)

\* Promise.race([p, placeholder]): the jobs the call enqueues, p being in
\* the state ps.  The reaction on a settled p is enqueued first, then the
\* one on the placeholder; the reaction on a pending p waits for p.
RaceJobs(ps) ==
    (IF Awaited(ps) THEN <<Job("race", ps)>> ELSE <<>>)
        \o <<Job("race", Fulfilled(Placeholder))>>

\* Variant: the fulfilment callback without the test d === placeholder.
AsyncData_fromPromise_then_noPlaceholderTest(rs) ==
    IF rs.state = "fulfilled"
    THEN Pure(AsyncData_Success(rs.value))
    ELSE AsyncData_Failure(rs.value)

\* The two callbacks of .then(...) in fromPromise, the race settled as rs.
AsyncData_fromPromise_then(rs) ==
    IF rs.state = "fulfilled"
    THEN Pure(IF rs.value = Placeholder THEN AsyncData_Loading
              ELSE AsyncData_Success(rs.value))
    ELSE AsyncData_Failure(rs.value)

-----------------------------------------------------------------------------
(* unwrap and caseOf of src/AsyncData.ts (the revision whose Failure is an
   Error), src/Result.ts and src/Maybe.ts.  hs maps the name of a handler to
   its behaviour; ks is the set of keys the pattern object has. *)

\* isFailure = x instanceof Error
AsyncData2_isFailure(a) == InstanceOf(a, "Error")

\* isSuccess = !isNotAsked(x) && !isLoading(x) && !isFailure(x)
AsyncData2_isSuccess(a) ==
    ~AsyncData_isNotAsked(a) /\ ~AsyncData_isLoading(a) /\ ~AsyncData2_isFailure(a)

\* Variant: an unwrap that tests for NotAsked and Loading only, and gives
\* every other value to successFn.
AsyncData2_unwrap_noFailureTest(a, hs) ==
    IF AsyncData_isNotAsked(a) THEN Call("NotAsked", hs["NotAsked"], Undefined)
    ELSE IF AsyncData_isLoading(a)
         THEN Call("Loading", hs["Loading"], Undefined)
    ELSE Call("Success", hs["Success"], a)

\* unwrap(x, notAskedFn, loadingFn, successFn, failureFn)
AsyncData2_unwrap(a, hs) ==
    IF AsyncData2_isSuccess(a) THEN Call("Success", hs["Success"], a)
    ELSE IF AsyncData2_isFailure(a) THEN Call("Failure", hs["Failure"], a)
    ELSE IF AsyncData_isNotAsked(a)
         THEN Call("NotAsked", hs["NotAsked"], Undefined)
    ELSE Call("Loading", hs["Loading"], Undefined)

\* (pattern as any)["default"]()
CallDefaultOf(ks, hs) ==
    IF "default" \in ks THEN Call("default", hs["default"], Undefined)
    ELSE Eval(Throw(Ref(Len(heap) + 1)), <<>>,
              <<Obj("TypeError", "pattern.default is not a function",
                    Undefined)>>)

\* caseOf(x, pattern)
AsyncData2_caseOf(a, ks, hs) ==
    IF AsyncData_isNotAsked(a) /\ "NotAsked" \in ks
    THEN Call("NotAsked", hs["NotAsked"], Undefined)
    ELSE IF AsyncData_isLoading(a) /\ "Loading" \in ks
         THEN Call("Loading", hs["Loading"], Undefined)
    ELSE IF AsyncData2_isSuccess(a) /\ "Success" \in ks
         THEN Call("Success", hs["Success"], a)
    ELSE IF AsyncData2_isFailure(a) /\ "Failure" \in ks
         THEN Call("Failure", hs["Failure"], a)
    ELSE CallDefaultOf(ks, hs)

\* src/Result.ts: isOk = !(x instanceof Error), isErr = x instanceof Error
ResultTs_isOk(a) == ~InstanceOf(a, "Error")
ResultTs_isErr(a) == InstanceOf(a, "Error")

\* unwrap = isErr(x) ? errFn(x) : okFn(x)
ResultTs_unwrap(a, hs) ==
    IF ResultTs_isErr(a) THEN Call("Err", hs["Err"], a)
    ELSE Call("Ok", hs["Ok"], a)

ResultTs_caseOf(a, ks, hs) ==
    IF ResultTs_isOk(a) /\ "Ok" \in ks THEN Call("Ok", hs["Ok"], a)
    ELSE IF ResultTs_isErr(a) /\ "Err" \in ks THEN Call("Err", hs["Err"], a)
    ELSE CallDefaultOf(ks, hs)

\* src/Maybe.ts: isJust = x !== Nothing, isNothing = x === Nothing
Maybe_isJust(a) == a # Undefined
Maybe_isNothing(a) == a = Undefined

\* unwrap = isJust(x) ? justFn(x) : nothingFn()
Maybe_unwrap(a, hs) ==
    IF Maybe_isJust(a) THEN Call("Just", hs["Just"], a)
    ELSE Call("Nothing", hs["Nothing"], Undefined)

Maybe_caseOf(a, ks, hs) ==
    IF Maybe_isJust(a) /\ "Just" \in ks THEN Call("Just", hs["Just"], a)
    ELSE IF Maybe_isNothing(a) /\ "Nothing" \in ks
         THEN Call("Nothing", hs["Nothing"], Undefined)
    ELSE CallDefaultOf(ks, hs)

-----------------------------------------------------------------------------
(* State *)

IdlePromise == [state |-> "none", value |-> Undefined]

Init ==
    /\ heap = <<>>
    /\ op = "idle"
    /\ x = Undefined
    /\ y = Undefined
    /\ pattern = {}
    /\ fn = Absent
    /\ handler = Absent
    /\ out = Ret(Undefined)
    /\ calls = <<>>
    /\ verdict = {}
    /\ p = IdlePromise
    /\ q = IdlePromise
    /\ pc = "idle"
    /\ dogImageRequest = NotAsked_value
    /\ race = IdlePromise
    /\ jobs = <<>>

\* The state after a synchronous call of `name` that evaluated to r, on the
\* values a and b, the pattern keys ks and the functions f and h.
FinishWith(name, a, b, ks, f, h, r) ==
    /\ op = "idle"
    /\ Len(heap) + Len(r.alloc) <= MaxObjects
    /\ op' = name
    /\ x' = a
    /\ y' = b
    /\ pattern' = ks
    /\ fn' = f
    /\ handler' = h
    /\ out' = r.out
    /\ calls' = r.calls
    /\ heap' = heap \o r.alloc
    /\ verdict' = {}
    /\ UNCHANGED <<jobs, race, dogImageRequest, p, q, pc>>

\* The state after a synchronous call `name(a, f, h)` that evaluated to r.
Finish(name, a, f, h, r) == FinishWith(name, a, Undefined, {}, f, h, r)

\* A constructor call: the new object is the returned value.
Construct(name, o) ==
    Finish(name, Undefined, Absent, Absent,
           Eval(Ret(Ref(Len(heap) + 1)), <<>>, <<o>>))

Messages == {Undefined, Str("boom")}

\* Result.err(message?)
ErrOf == \E m \in Messages : Construct("Result.err", NewError(m))

\* Result.errData(data, message?)
ErrWithData ==
    \E m \in Messages : Construct("Result.errData", NewDataError(Num(0), m))

\* RemoteData.failure(message?)
FailureOf == \E m \in Messages : Construct("RemoteData.failure", NewError(m))

\* RemoteData.failureData(data, message?)
FailureWithData ==
    \E m \in Messages :
        Construct("RemoteData.failureData", NewDataError(Num(0), m))

\* A client allocates an object that is no Error.
ObjectLiteral == Construct("client.object", Obj("Object", "", Undefined))

\* A client passes a value through every type guard.
Classify ==
    \E a \in Values :
        /\ op = "idle"
        /\ op' = "isType"
        /\ x' = a
        /\ verdict' = {g \in Guards : Guard(g, a)}
        /\ out' = Ret(Undefined)
        /\ fn' = Absent
        /\ handler' = Absent
        /\ calls' = <<>>
        /\ UNCHANGED <<jobs, race, dogImageRequest, heap, y, pattern, p, q, pc>>

\* RemoteData.fromResult(x)
FromResult ==
    \E a \in Values :
        Finish("RemoteData.fromResult", a, Absent, Absent,
               Pure(RemoteData_fromResult(a)))

\* Result.toRemoteData(x)
ToRemoteData ==
    \E a \in Values :
        Finish("Result.toRemoteData", a, Absent, Absent,
               Pure(Result_toRemoteData(a)))

\* RemoteData.toResult(x)
ToResult ==
    \E a \in Values :
        Finish("RemoteData.toResult", a, Absent, Absent,
               Pure(RemoteData_toResult(a)))

\* Result.fromRemoteData(x)
FromRemoteData ==
    \E a \in Values :
        Finish("Result.fromRemoteData", a, Absent, Absent,
               Pure(Result_fromRemoteData(a)))

\* RemoteData.toResult(RemoteData.fromResult(x))
ResultRoundTrip ==
    \E a \in Values :
        Finish("RemoteData.toResult.fromResult", a, Absent, Absent,
               Pure(RemoteData_toResult(RemoteData_fromResult(a))))

\* RemoteData.toOption(x)
ToOption ==
    \E a \in Values :
        Finish("RemoteData.toOption", a, Absent, Absent,
               Pure(RemoteData_toOption(a)))

\* Option.fromRemoteData(x)
OptionFromRemoteData ==
    \E a \in Values :
        Finish("Option.fromRemoteData", a, Absent, Absent,
               Pure(Option_fromRemoteData(a)))

\* RemoteData.fromOption(x)
FromOption ==
    \E a \in Values :
        Finish("RemoteData.fromOption", a, Absent, Absent,
               Pure(RemoteData_fromOption(a)))

\* Option.toRemoteData(x)
OptionToRemoteData ==
    \E a \in Values :
        Finish("Option.toRemoteData", a, Absent, Absent,
               Pure(Option_toRemoteData(a)))

\* RemoteData.fromOption(RemoteData.toOption(x))
OptionRoundTrip ==
    \E a \in Values :
        Finish("RemoteData.fromOption.toOption", a, Absent, Absent,
               Pure(RemoteData_fromOption(RemoteData_toOption(a))))

\* The error objects a client can supply (E extends Error).
ErrorValues == {v \in Values : Err_isType(v)}

\* Option.toResult(x, e)
OptionToResult ==
    \E a \in Values, e \in ErrorValues :
        FinishWith("Option.toResult", a, e, {}, Absent, Absent,
                   Pure(Option_toResult(a, e)))

\* Result.fromOption(x, e)
ResultFromOption ==
    \E a \in Values, e \in ErrorValues :
        FinishWith("Result.fromOption", a, e, {}, Absent, Absent,
                   Pure(Result_fromOption(a, e)))

\* Result.toOption(x)
ResultToOption ==
    \E a \in Values :
        Finish("Result.toOption", a, Absent, Absent, Pure(Result_toOption(a)))

\* Option.fromResult(x)
OptionFromResult ==
    \E a \in Values :
        Finish("Option.fromResult", a, Absent, Absent,
               Pure(Option_fromResult(a)))

\* Result.toOption(Result.fromOption(x, e))
ResultOptionRoundTrip ==
    \E a \in Values, e \in ErrorValues :
        FinishWith("Result.toOption.fromOption", a, e, {}, Absent, Absent,
                   Pure(Result_toOption(Result_fromOption(a, e))))

\* The values a client passes to fromNullable and fromFalsy: the values of
\* the state, null, the booleans, strings and NaN.
MaybeFalsy ==
    Values \cup {Null, Bool(FALSE), Bool(TRUE), Str(""), Str("oops"), NaN}

\* Option.fromNullable(x)
FromNullable ==
    \E a \in MaybeFalsy :
        Finish("Option.fromNullable", a, Absent, Absent,
               Pure(Option_fromNullable(a)))

\* Option.fromFalsy(x)
FromFalsy ==
    \E a \in MaybeFalsy :
        Finish("Option.fromFalsy", a, Absent, Absent,
               Pure(Option_fromFalsy(a)))

\* [Option.fromNullable(x), Option.fromFalsy(x)]
FromNullableAndFalsy ==
    \E a \in MaybeFalsy :
        Finish("Option.fromNullable,fromFalsy", a, Absent, Absent,
               Pure(Arr(<<Option_fromNullable(a), Option_fromFalsy(a)>>)))

IfSome ==
    \E a \in Values, f \in Fns :
        Finish("Option.ifSome", a, f, Absent, Some_ifType(a, f))

IfOk ==
    \E a \in Values, f \in Fns :
        Finish("Result.ifOk", a, f, Absent, Ok_ifType(a, f))

IfErr ==
    \E a \in Values, f \in Fns :
        Finish("Result.ifErr", a, f, Absent, Err_ifType(a, f))

IfSuccess ==
    \E a \in Values, f \in Fns :
        Finish("RemoteData.ifSuccess", a, f, Absent, Success_ifType(a, f))

IfFailure ==
    \E a \in Values, f \in Fns :
        Finish("RemoteData.ifFailure", a, f, Absent, Failure_ifType(a, f))

\* DataError.of(data, message?)
DataErrorOf ==
    \E d \in {Num(0), Str("oops")}, m \in Messages :
        FinishWith("DataError.of", d, m, {}, Absent, Absent,
                   Eval(Ret(Ref(Len(heap) + 1)), <<>>, <<NewDataError(d, m)>>))

\* DataError.map(e, fn)
DataErrorMap ==
    \E e \in {v \in Values : DataError_isDataError(v)}, f \in Fns :
        Finish("DataError.map", e, f, Absent, DataError_map(e, f))

\* The pattern objects the type of caseOf / match admits over the variant
\* keys: the exhaustive ones, and the ones with a default.
Patterns(keys) ==
    {ks \in SUBSET (keys \cup {"default"}) : "default" \in ks \/ keys \subseteq ks}

\* Option.caseOf(x, pattern)
OptionCaseOf ==
    \E a \in Values, ks \in Patterns({"Some", "None"}), f \in Fns :
        FinishWith("Option.caseOf", a, Undefined, ks, f, Absent,
                   Option_caseOf(a, ks, f))

\* Result.caseOf(x, pattern)
ResultCaseOf ==
    \E a \in Values, ks \in Patterns({"Ok", "Err"}), f \in Fns :
        FinishWith("Result.caseOf", a, Undefined, ks, f, Absent,
                   Result_caseOf(a, ks, f))

\* RemoteData.match(x, pattern)
RemoteDataMatch ==
    \E a \in Values, f \in Fns,
       ks \in Patterns({"NotAsked", "Loading", "Success", "Failure"}) :
        FinishWith("RemoteData.match", a, Undefined, ks, f, Absent,
                   RemoteData_match(a, ks, f))

\* The arrays a client can pass.
Arrays == UNION {[1..n -> Values] : n \in 0..MaxLen}

ResultConsolidate ==
    \E xs \in Arrays :
        Finish("Result.consolidate", Arr(xs), Absent, Absent,
               Pure(Result_consolidate(xs)))

RemoteDataConsolidate ==
    \E xs \in Arrays :
        Finish("RemoteData.consolidate", Arr(xs), Absent, Absent,
               Pure(RemoteData_consolidate(xs)))

OptionConsolidate ==
    \E xs \in Arrays :
        Finish("Option.consolidate", Arr(xs), Absent, Absent,
               Pure(Option_consolidate(xs)))

\* The values a client function can throw and a promise can reject with:
\* any value of the state, null or a string.
Throwables == Values \cup {Null, Str("oops")}

ThrowingFns == {Throws(v) : v \in Throwables}

\* The handlers a client can pass as onThrow / onReject, or leave out; a
\* handler returns the value to use.
Handlers ==
    {Absent} \cup {Returns(v) : v \in {Num(0)} \cup {Ref(i) : i \in 1..Len(heap)}}

\* Result.encase(fn, onThrow?)(arg)
ResultEncase ==
    \E a \in {Undefined, Num(0)}, f \in Fns \cup ThrowingFns, h \in Handlers :
        Finish("Result.encase", a, f, h, Result_encase(f, h, a))

\* Option.encase(fn)(arg)
OptionEncase ==
    \E a \in {Undefined, Num(0)}, f \in Fns \cup ThrowingFns :
        Finish("Option.encase", a, f, Absent, Option_encase(f, a))

PendingPromise == [state |-> "pending", value |-> Undefined]

\* A client starts an asynchronous computation: a pending promise.
PromiseCreate ==
    /\ op = "idle"
    /\ p = IdlePromise
    /\ p' = PendingPromise
    /\ UNCHANGED <<jobs, race, dogImageRequest, heap, op, x, y, pattern, fn, handler, out, calls, verdict, q, pc>>

\* The computation ends: the input promise fulfills or rejects.
PromiseSettle ==
    /\ p.state = "pending"
    /\ \/ \E v \in Values : p' = [state |-> "fulfilled", value |-> v]
       \/ \E e \in Throwables : p' = [state |-> "rejected", value |-> e]
    /\ UNCHANGED <<jobs, race, dogImageRequest, heap, op, x, y, pattern, fn, handler, out, calls, verdict, q, pc>>

\* The call of an async function: it runs to `await p` and returns a
\* pending promise.
AsyncCall(name, h) ==
    /\ op = "idle"
    /\ pc = "idle"
    /\ p.state # "none"
    /\ Len(heap) < MaxObjects
    /\ op' = name
    /\ handler' = h
    /\ q' = PendingPromise
    /\ pc' = "awaiting"
    /\ UNCHANGED <<jobs, race, dogImageRequest, heap, x, y, pattern, fn, out, calls, verdict, p>>

OptionEncasePromise == AsyncCall("Option.encasePromise", Absent)

ResultEncasePromise ==
    \E h \in Handlers : AsyncCall("Result.encasePromise", h)

RemoteDataEncasePromise ==
    \E h \in Handlers : AsyncCall("RemoteData.encasePromise", h)

\* The body of the async function op, resumed with p settled.
AsyncBody ==
    CASE op = "Option.encasePromise" -> Option_encasePromise(p)
      [] op = "Result.encasePromise" -> Result_encasePromise(p, handler)
      [] op = "RemoteData.encasePromise" ->
            RemoteData_encasePromise(p, handler)

\* The input promise has settled: the async function resumes after its
\* await, runs to its end and settles the promise it returned.
Resume ==
    /\ pc = "awaiting"
    /\ Awaited(p)
    /\ LET r == AsyncBody
       IN  /\ out' = r.out
           /\ calls' = r.calls
           /\ heap' = heap \o r.alloc
           /\ q' = Settled(r.out)
    /\ pc' = "done"
    /\ UNCHANGED <<jobs, race, dogImageRequest, op, x, y, pattern, fn, handler, verdict, p>>

\* The payloads the fetch fulfills with.
Payloads ==
    {Json(Str("success"), Str("https://images.dog.ceo/n02088238_5239.jpg"),
          Undefined),
     Json(Str("error"), Str("Dog not found"), Num(404)),
     Json(Undefined, Undefined, Undefined),
     Null}

\* getDogImage(): sets the request to Loading, starts the fetch and runs to
\* the await; it returns a pending promise.
GetDogImage ==
    /\ op = "idle"
    /\ pc = "idle"
    /\ Len(heap) < MaxObjects
    /\ dogImageRequest' = Loading_value
    /\ op' = "getDogImage"
    /\ p' = PendingPromise
    /\ q' = PendingPromise
    /\ pc' = "awaiting"
    /\ UNCHANGED <<jobs, race, heap, x, y, pattern, fn, handler, out, calls, verdict>>

\* The fetch settles: it fulfills with a payload or rejects.
FetchSettle ==
    /\ op = "getDogImage"
    /\ p.state = "pending"
    /\ \/ \E v \in Payloads : p' = [state |-> "fulfilled", value |-> v]
       \/ \E e \in Throwables : p' = [state |-> "rejected", value |-> e]
    /\ UNCHANGED <<jobs, race, heap, op, x, y, pattern, fn, handler, out, calls, verdict,
                   q, pc, dogImageRequest>>

\* getDogImage resumes after its await, assigns the request and settles
\* the promise it returned.
GetDogImageResume ==
    /\ op = "getDogImage"
    /\ pc = "awaiting"
    /\ Awaited(p)
    /\ LET r == GetDogImage_afterAwait(p)
       IN  /\ dogImageRequest' = r.request
           /\ heap' = heap \o r.alloc
           /\ out' = r.out
           /\ q' = Settled(r.out)
    /\ pc' = "done"
    /\ UNCHANGED <<jobs, race, op, x, y, pattern, fn, handler, calls, verdict, p>>

\* `await promise` in the client is over: the client drops the promises
\* and keeps the request.
GetDogImageDone ==
    /\ op = "getDogImage"
    /\ pc = "done"
    /\ pc' = "idle"
    /\ op' = "idle"
    /\ out' = Ret(Undefined)
    /\ p' = IdlePromise
    /\ q' = IdlePromise
    /\ UNCHANGED <<jobs, race, heap, x, y, pattern, fn, handler, calls, verdict,
                   dogImageRequest>>

RemoteDataIsCompleted ==
    \E a \in Values :
        /\ op = "idle"
        /\ op' = "RemoteData.isCompleted"
        /\ x' = a
        /\ verdict' = {g \in Guards : Guard(g, a)}
        /\ out' = Ret(Bool(RemoteData_isCompleted(a)))
        /\ fn' = Absent
        /\ handler' = Absent
        /\ calls' = <<>>
        /\ UNCHANGED <<heap, y, pattern, p, q, pc, dogImageRequest, race, jobs>>

RemoteDataOrThrow ==
    \E a \in Values :
        Finish("RemoteData.orThrow", a, Absent, Absent,
               Eval(RemoteData_orThrow(a), <<>>, <<>>))

ResultOrThrow ==
    \E a \in Values :
        Finish("Result.orThrow", a, Absent, Absent,
               Eval(Result_orThrow(a), <<>>, <<>>))

\* The handlers a client passes under the names `keys` (and "default"):
\* each returns its own value, or each throws its own value, or all return
\* undefined.
HandlerRecords(keys) ==
    {[k \in keys \cup {"default"} |-> Returns(Str(k))],
     [k \in keys \cup {"default"} |-> Throws(Str(k))],
     [k \in keys \cup {"default"} |-> Returns(Undefined)]}

AsyncKeys == {"NotAsked", "Loading", "Success", "Failure"}

AsyncDataUnwrap ==
    \E a \in Values \cup {AsyncData_NotAsked, AsyncData_Loading},
       hs \in HandlerRecords(AsyncKeys) :
        FinishWith("AsyncData.unwrap", a, Undefined, AsyncKeys, hs, Absent,
                   AsyncData2_unwrap(a, hs))

AsyncDataCaseOf ==
    \E a \in Values \cup {AsyncData_NotAsked, AsyncData_Loading},
       ks \in Patterns(AsyncKeys), hs \in HandlerRecords(AsyncKeys) :
        FinishWith("AsyncData.caseOf", a, Undefined, ks, hs, Absent,
                   AsyncData2_caseOf(a, ks, hs))

ResultTsUnwrap ==
    \E a \in Values, hs \in HandlerRecords({"Ok", "Err"}) :
        FinishWith("ResultTs.unwrap", a, Undefined, {"Ok", "Err"}, hs, Absent,
                   ResultTs_unwrap(a, hs))

ResultTsCaseOf ==
    \E a \in Values, ks \in Patterns({"Ok", "Err"}),
       hs \in HandlerRecords({"Ok", "Err"}) :
        FinishWith("ResultTs.caseOf", a, Undefined, ks, hs, Absent,
                   ResultTs_caseOf(a, ks, hs))

MaybeUnwrap ==
    \E a \in Values, hs \in HandlerRecords({"Just", "Nothing"}) :
        FinishWith("Maybe.unwrap", a, Undefined, {"Just", "Nothing"}, hs,
                   Absent, Maybe_unwrap(a, hs))

MaybeCaseOf ==
    \E a \in Values, ks \in Patterns({"Just", "Nothing"}),
       hs \in HandlerRecords({"Just", "Nothing"}) :
        FinishWith("Maybe.caseOf", a, Undefined, ks, hs, Absent,
                   Maybe_caseOf(a, ks, hs))

\* The numbers a client passes as times: some finite ones, NaN and the
\* infinities.
Numbers == {Num(0), Num(999), Num(-1), NaN, Infinity, NegInfinity}

TimestampParse ==
    \E d \in Numbers :
        Finish("Timestamp.parse", d, Absent, Absent, Pure(Timestamp_parse(d)))

TimestampOf ==
    \E d \in Numbers :
        Finish("Timestamp.timestamp", d, Absent, Absent, Timestamp_timestamp(d))

TimestampIsTimestamp ==
    \E t \in Values \cup Numbers \cup {Null, Str("1970-01-01")} :
        Finish("Timestamp.isTimestamp", t, Absent, Absent,
               Timestamp_isTimestamp(t))

TimestampCoerceTimestamp ==
    \E t \in Numbers :
        Finish("Timestamp.coerceTimestamp", t, Absent, Absent,
               Timestamp_coerceTimestamp(t))

\* The elements and the arrays a client zips.
TupleElements == {Num(1), Num(2), Str("a")}
TupleArrays == UNION {[1..n -> TupleElements] : n \in 0..MaxLen}

\* The array of arrays whose elements are the sequences of ss.
ArrOfArrs(ss) == Arr([k \in 1..Len(ss) |-> Arr(ss[k])])

\* Tuple.zip(), zip(a), zip(a, b), zip(a, b, c)
TupleZip ==
    /\ op = "idle"
    /\ \E k \in 0..3 : \E args \in [1..k -> TupleArrays] :
          Finish("Tuple.zip", ArrOfArrs(args), Absent, Absent,
                 Pure(Arr(Tuple_zip(args))))

\* Tuple.unzip(zipped), zipped an array of tuples of one arity
TupleUnzip ==
    /\ op = "idle"
    /\ \E k \in 0..3, n \in 0..MaxLen :
          \E zipped \in [1..n -> [1..k -> TupleElements]] :
              Finish("Tuple.unzip", ArrOfArrs(zipped), Absent, Absent,
                     Pure(Arr(Tuple_unzip(ArrOfArrs(zipped).elems))))

\* Tuple.unzip(Tuple.zip(a, b))
TupleUnzipZip ==
    /\ op = "idle"
    /\ \E a \in TupleArrays, b \in TupleArrays :
          Finish("Tuple.unzip(Tuple.zip)", ArrOfArrs(<<a, b>>), Absent, Absent,
                 Pure(Arr(Tuple_unzip(Tuple_zip(<<a, b>>)))))

\* The values a client holds as AsyncData: those of the value domain and the
\* two symbols of the module.
AsyncValues == Values \cup {AsyncData_NotAsked, AsyncData_Loading}

\* AsyncData.Failure(e)
AsyncDataFailure ==
    \E e \in {Undefined, Num(0), Str("oops")} :
        Finish("AsyncData.Failure", e, Absent, Absent, AsyncData_Failure(e))

\* The five type guards of AsyncData answer for a value.
AsyncDataClassify ==
    \E a \in AsyncValues :
        /\ op = "idle"
        /\ op' = "AsyncData.isType"
        /\ x' = a
        /\ verdict' = {g \in AsyncData_Guards : AsyncData_Guard(g, a)}
        /\ out' = Ret(Undefined)
        /\ fn' = Absent
        /\ handler' = Absent
        /\ calls' = <<>>
        /\ UNCHANGED <<heap, y, pattern, p, q, pc, dogImageRequest, race, jobs>>

AsyncDataToMaybe ==
    \E a \in AsyncValues :
        Finish("AsyncData.toMaybe", a, Absent, Absent,
               Pure(AsyncData_toMaybe(a)))

AsyncDataMapFailure ==
    \E a \in AsyncValues, f \in {Returns(Num(0)), Throws(Str("oops"))} :
        Finish("AsyncData.mapFailure", a, f, Absent, AsyncData_mapFailure(f, a))

AsyncDataCombine ==
    \E xs \in UNION {[1..n -> AsyncValues] : n \in 0..MaxLen} :
        Finish("AsyncData.combine", Arr(xs), Absent, Absent,
               Pure(AsyncData_combine(xs)))

\* The promise p as a client passes it: a value with the state p is in.
PromiseValue(ps) == [t |-> "promise", state |-> ps.state, value |-> ps.value]

\* AsyncData.fromPromise(p), p null or undefined: Promise.resolve(NotAsked).
FromPromiseNull ==
    /\ op = "idle"
    /\ pc = "idle"
    /\ p.state = "none"
    /\ \E a \in {Null, Undefined} : x' = a
    /\ op' = "AsyncData.fromPromise"
    /\ q' = Fulfilled(AsyncData_NotAsked)
    /\ pc' = "racing"
    /\ UNCHANGED <<heap, y, pattern, fn, handler, out, calls, verdict, p,
                   dogImageRequest, race, jobs>>

\* AsyncData.fromPromise(p), p a promise: the race is set up and the
\* promise its .then(...) makes is returned, pending.
FromPromise ==
    /\ op = "idle"
    /\ pc = "idle"
    /\ p.state # "none"
    /\ Len(heap) < MaxObjects
    /\ x' = PromiseValue(p)
    /\ op' = "AsyncData.fromPromise"
    /\ race' = PendingPromise
    /\ jobs' = RaceJobs(p)
    /\ q' = PendingPromise
    /\ pc' = "racing"
    /\ UNCHANGED <<heap, y, pattern, fn, handler, out, calls, verdict, p,
                   dogImageRequest>>

\* The first job of the queue runs.  A reaction on an element of the race
\* settles the race if it is pending, which enqueues the reaction of
\* .then(...); that reaction settles the returned promise.
RunJob ==
    /\ op = "AsyncData.fromPromise"
    /\ jobs # <<>>
    /\ LET job == Head(jobs)
           r == AsyncData_fromPromise_then(job.settled)
       IN  IF job.kind = "race"
           THEN /\ race' = IF race.state = "pending" THEN job.settled ELSE race
                /\ jobs' = Tail(jobs) \o
                       (IF race.state = "pending"
                        THEN <<Job("then", job.settled)>> ELSE <<>>)
                /\ UNCHANGED <<heap, q>>
           ELSE /\ q' = Settled(r.out)
                /\ heap' = heap \o r.alloc
                /\ jobs' = Tail(jobs)
                /\ UNCHANGED race
    /\ UNCHANGED <<op, x, y, pattern, fn, handler, out, calls, verdict, p, pc,
                   dogImageRequest>>

\* The promise p settles; the reaction the race put on a pending p is
\* enqueued.
RacedPromiseSettle ==
    /\ p.state = "pending"
    /\ \E ps \in {Fulfilled(v) : v \in Values} \cup
                 {Rejected(e) : e \in Throwables} :
          /\ p' = ps
          /\ jobs' = IF pc = "racing" /\ x.t = "promise" /\ x.state = "pending"
                     THEN Append(jobs, Job("race", ps)) ELSE jobs
    /\ UNCHANGED <<heap, op, x, y, pattern, fn, handler, out, calls, verdict,
                   q, pc, dogImageRequest, race>>

\* The client has read the value the returned promise fulfilled with and
\* drops that promise; it keeps p.
FromPromiseDone ==
    /\ op = "AsyncData.fromPromise"
    /\ q.state = "fulfilled"
    /\ jobs = <<>>
    /\ op' = "idle"
    /\ pc' = "idle"
    /\ x' = Undefined
    /\ q' = IdlePromise
    /\ race' = IdlePromise
    /\ UNCHANGED <<heap, y, pattern, fn, handler, out, calls, verdict, p,
                   dogImageRequest, jobs>>

\* The client drops the promise p.
PromiseDrop ==
    /\ op = "idle"
    /\ p.state # "none"
    /\ p' = IdlePromise
    /\ UNCHANGED <<heap, op, x, y, pattern, fn, handler, out, calls, verdict,
                   q, pc, dogImageRequest, race, jobs>>

\* The client has observed the settled promise and drops both promises.
Forget ==
    /\ pc = "done"
    /\ pc' = "idle"
    /\ op' = "idle"
    /\ handler' = Absent
    /\ out' = Ret(Undefined)
    /\ calls' = <<>>
    /\ p' = IdlePromise
    /\ q' = IdlePromise
    /\ UNCHANGED <<jobs, race, dogImageRequest, heap, x, y, pattern, fn, verdict>>

\* The call has returned (or thrown) to the client, which goes on.
Return ==
    /\ op # "idle"
    /\ pc = "idle"
    /\ op' = "idle"
    /\ x' = Undefined
    /\ y' = Undefined
    /\ pattern' = {}
    /\ fn' = Absent
    /\ handler' = Absent
    /\ out' = Ret(Undefined)
    /\ calls' = <<>>
    /\ verdict' = {}
    /\ UNCHANGED <<jobs, race, dogImageRequest, heap, p, q, pc>>

Constructors ==
    \/ ErrOf
    \/ ErrWithData
    \/ FailureOf
    \/ FailureWithData
    \/ ObjectLiteral

\* Type guards, conversions and the ifType combinators.
Next ==
    \/ Return
    \/ Constructors
    \/ Classify
    \/ FromResult
    \/ ToRemoteData
    \/ ToResult
    \/ FromRemoteData
    \/ ResultRoundTrip
    \/ IfSome
    \/ IfOk
    \/ IfErr
    \/ IfSuccess
    \/ IfFailure

Spec == Init /\ [][Next]_vars

\* Conversions from and to Option.
NextOption ==
    \/ Return
    \/ Constructors
    \/ ToOption
    \/ OptionFromRemoteData
    \/ FromOption
    \/ OptionToRemoteData
    \/ OptionRoundTrip
    \/ OptionToResult
    \/ ResultFromOption
    \/ ResultToOption
    \/ OptionFromResult
    \/ ResultOptionRoundTrip
    \/ FromNullable
    \/ FromFalsy
    \/ FromNullableAndFalsy

SpecOption == Init /\ [][NextOption]_vars

\* DataError
NextDataError ==
    \/ Return
    \/ Constructors
    \/ DataErrorOf
    \/ DataErrorMap

SpecDataError == Init /\ [][NextDataError]_vars

\* Tuple.zip, Tuple.unzip
NextTuple ==
    \/ Return
    \/ TupleZip
    \/ TupleUnzip
    \/ TupleUnzipZip

SpecTuple == Init /\ [][NextTuple]_vars

\* Timestamp
NextTimestamp ==
    \/ Return
    \/ ObjectLiteral
    \/ TimestampParse
    \/ TimestampOf
    \/ TimestampIsTimestamp
    \/ TimestampCoerceTimestamp

SpecTimestamp == Init /\ [][NextTimestamp]_vars

\* unwrap and caseOf of AsyncData, Result and Maybe
NextUnwrap ==
    \/ Return
    \/ ErrOf
    \/ AsyncDataUnwrap
    \/ AsyncDataCaseOf
    \/ ResultTsUnwrap
    \/ ResultTsCaseOf
    \/ MaybeUnwrap
    \/ MaybeCaseOf

SpecUnwrap == Init /\ [][NextUnwrap]_vars

\* RemoteData.isCompleted, orThrow
NextRemoteData ==
    \/ Return
    \/ Constructors
    \/ RemoteDataIsCompleted
    \/ RemoteDataOrThrow
    \/ ResultOrThrow

SpecRemoteData == Init /\ [][NextRemoteData]_vars

\* AsyncData, the revision whose Failure is an ErrorValue
NextAsyncData ==
    \/ Return
    \/ ErrOf
    \/ AsyncDataFailure
    \/ AsyncDataClassify
    \/ AsyncDataToMaybe
    \/ AsyncDataMapFailure
    \/ AsyncDataCombine

SpecAsyncData == Init /\ [][NextAsyncData]_vars

\* AsyncData.fromPromise
NextRace ==
    \/ ErrOf
    \/ Return
    \/ PromiseCreate
    \/ PromiseDrop
    \/ RacedPromiseSettle
    \/ FromPromiseNull
    \/ FromPromise
    \/ RunJob
    \/ FromPromiseDone

SpecRace == Init /\ [][NextRace]_vars

\* The README example: requests made one after the other.
NextDog ==
    \/ ErrOf
    \/ Return
    \/ GetDogImage
    \/ FetchSettle
    \/ GetDogImageResume
    \/ GetDogImageDone

SpecDog == Init /\ [][NextDog]_vars

\* caseOf and match, and the combinators that take a client function.
NextMatch ==
    \/ Return
    \/ FailureWithData
    \/ ObjectLiteral
    \/ IfSome
    \/ IfOk
    \/ IfErr
    \/ IfSuccess
    \/ OptionCaseOf
    \/ ResultCaseOf
    \/ RemoteDataMatch

SpecMatch == Init /\ [][NextMatch]_vars

\* consolidate
NextConsolidate ==
    \/ Return
    \/ Constructors
    \/ ResultConsolidate
    \/ RemoteDataConsolidate
    \/ OptionConsolidate

SpecConsolidate == Init /\ [][NextConsolidate]_vars

\* encase
NextEncase ==
    \/ Return
    \/ Constructors
    \/ ResultEncase
    \/ OptionEncase

SpecEncase == Init /\ [][NextEncase]_vars

\* encasePromise
NextPromise ==
    \/ Constructors
    \/ Return
    \/ PromiseCreate
    \/ PromiseSettle
    \/ OptionEncasePromise
    \/ ResultEncasePromise
    \/ RemoteDataEncasePromise
    \/ Resume
    \/ Forget

SpecPromise == Init /\ [][NextPromise]_vars

-----------------------------------------------------------------------------
(* C1: in every family exactly one type guard answers true for every value, *)
(* the two sentinels are distinct, and a value built by failure() or        *)
(* failureData() is a Failure and nothing else.                             *)

ExactlyOne(S) == Cardinality(S \cap verdict) = 1

C1_ClassificationExclusive ==
    /\ NotAsked_value # Loading_value
    /\ op = "isType" =>
          /\ ExactlyOne({"isSome", "isNone"})
          /\ ExactlyOne({"isOk", "isErr"})
          /\ ExactlyOne({"isNotAsked", "isLoading", "isSuccess", "isFailure"})
          /\ (x.t = "object" /\ heap[x.id].cls \in {"Error", "DataError"}
                 => verdict \cap {"isNotAsked", "isLoading", "isSuccess",
                                  "isFailure"} = {"isFailure"})

C1_Witness ==
    /\ op = "isType"
    /\ x.t = "object"
    /\ heap[x.id].cls = "DataError"
    /\ "isFailure" \in verdict

-----------------------------------------------------------------------------
(* Vocabulary of the claims, stated on the representation: an error object  *)
(* is an object of class Error or of a class derived from it.               *)

IsErrorObject(v) ==
    /\ v.t = "object"
    /\ heap[v.id].cls \in {"Error", "DataError", "TypeError", "ErrorValue",
                            "RangeError"}

IsSentinel(v) == v = Sym(1, "NotAsked") \/ v = Sym(2, "Loading")

\* The completion of the client function f.
ResultOf(f) == IF f.kind = "return" THEN Ret(f.v) ELSE Throw(f.v)

CalledOnceWith(a) == calls = <<[fn |-> "fn", arg |-> a]>>

-----------------------------------------------------------------------------
(* C5 (as stated): for every Ok or Err value r, toResult(fromResult(r)) is  *)
(* r itself and fromResult(r) is r itself.  Every value is an Ok or an Err. *)

C5_RoundTripIdentity_Original ==
    /\ op = "RemoteData.toResult.fromResult" => out = Ret(x)
    /\ op = "RemoteData.fromResult" => out = Ret(x)

(* C5 (amended): fromResult(r) is r itself for every r, and                 *)
(* toResult(fromResult(r)) is r itself for every Ok or Err value r other    *)
(* than the NotAsked and Loading sentinels; for these two, which isOk       *)
(* accepts, it is undefined.                                                *)

C5_RoundTripIdentity ==
    /\ op = "RemoteData.toResult.fromResult" =>
          out = Ret(IF IsSentinel(x) THEN Undefined ELSE x)
    /\ op = "RemoteData.fromResult" => out = Ret(x)

C5_Witness ==
    /\ op = "RemoteData.toResult.fromResult"
    /\ IsErrorObject(x)
    /\ out = Ret(x)

-----------------------------------------------------------------------------
(* C6: toResult(x) and Result.fromRemoteData(x) return undefined, which     *)
(* isOk accepts, when x is NotAsked or Loading; x itself when x is a        *)
(* Success; x itself, an Err, when x is a Failure.                          *)

C6_ToResult ==
    op \in {"RemoteData.toResult", "Result.fromRemoteData"} =>
        /\ out.type = "return"
        /\ IsSentinel(x) => out.value = Undefined /\ "isOk" \in
               {g \in Guards : Guard(g, out.value)}
        /\ ~IsSentinel(x) => out.value = x
        /\ IsErrorObject(x) <=> Guard("isErr", out.value)

C6_Witness ==
    /\ op = "RemoteData.toResult"
    /\ x = Loading_value
    /\ out = Ret(Undefined)

-----------------------------------------------------------------------------
(* C9: ifSome, ifOk and ifSuccess invoke fn exactly once, with x, when x is *)
(* a Some, an Ok, a Success, and return fn's result; otherwise fn is never  *)
(* invoked.                                                                 *)

C9_MapShortCircuit ==
    /\ op = "Option.ifSome" =>
          IF x # Undefined
          THEN CalledOnceWith(x) /\ out = ResultOf(fn)
          ELSE calls = <<>>
    /\ op = "Result.ifOk" =>
          IF ~IsErrorObject(x)
          THEN CalledOnceWith(x) /\ out = ResultOf(fn)
          ELSE calls = <<>>
    /\ op = "RemoteData.ifSuccess" =>
          IF ~IsErrorObject(x) /\ ~IsSentinel(x)
          THEN CalledOnceWith(x) /\ out = ResultOf(fn)
          ELSE calls = <<>>

C9_Witness ==
    /\ op = "RemoteData.ifSuccess"
    /\ x = Loading_value
    /\ fn.kind = "throw"
    /\ calls = <<>>
    /\ out = Ret(x)

-----------------------------------------------------------------------------
(* C10: ifErr(x, fn) returns x itself without calling fn for every Ok x;    *)
(* ifOk(e, fn) returns the same Err object e; ifFailure(x, fn) returns x    *)
(* itself for NotAsked, Loading and every Success.                          *)

C10_WrongBranchIdentity ==
    /\ op = "Result.ifErr" /\ ~IsErrorObject(x) =>
          out = Ret(x) /\ calls = <<>>
    /\ op = "Result.ifOk" /\ IsErrorObject(x) =>
          out = Ret(x) /\ calls = <<>>
    /\ op = "RemoteData.ifFailure" /\ ~IsErrorObject(x) =>
          out = Ret(x) /\ calls = <<>>

C10_Witness ==
    /\ op = "Result.ifErr"
    /\ x = Num(0)
    /\ fn # Returns(Num(0))
    /\ out = Ret(Num(0))

-----------------------------------------------------------------------------
(* C2: Result.consolidate(xs) returns an array holding the elements of xs   *)
(* in order iff every element is an Ok; otherwise it returns the first Err  *)
(* of xs, the very same object, whatever follows it.                        *)

\* i is the least index of xs in S.
FirstAt(i, S) == i \in S /\ \A j \in S : i <= j

C2_ResultConsolidate ==
    op = "Result.consolidate" =>
        LET xs == x.elems
        IN  IF \A i \in 1..Len(xs) : ~IsErrorObject(xs[i])
            THEN out = Ret(Arr(xs))
            ELSE \E i \in 1..Len(xs) :
                    /\ FirstAt(i, {k \in 1..Len(xs) : IsErrorObject(xs[k])})
                    /\ out = Ret(xs[i])

C2_Witness ==
    /\ op = "Result.consolidate"
    /\ Len(x.elems) = 2
    /\ IsErrorObject(x.elems[1])
    /\ IsErrorObject(x.elems[2])
    /\ x.elems[1] # x.elems[2]
    /\ out = Ret(x.elems[1])

-----------------------------------------------------------------------------
(* C7: RemoteData.consolidate(xs) returns an array holding the elements of  *)
(* xs in order iff every element is a Success; otherwise the first element  *)
(* that is not a Success: NotAsked, Loading or a Failure.                   *)

IsNonSuccess(v) == IsErrorObject(v) \/ IsSentinel(v)

C7_RemoteDataConsolidate ==
    op = "RemoteData.consolidate" =>
        LET xs == x.elems
        IN  IF \A i \in 1..Len(xs) : ~IsNonSuccess(xs[i])
            THEN out = Ret(Arr(xs))
            ELSE \E i \in 1..Len(xs) :
                    /\ FirstAt(i, {k \in 1..Len(xs) : IsNonSuccess(xs[k])})
                    /\ out = Ret(xs[i])

C7_Witness ==
    /\ op = "RemoteData.consolidate"
    /\ Len(x.elems) = 2
    /\ x.elems[1] = Loading_value
    /\ IsErrorObject(x.elems[2])
    /\ out = Ret(Loading_value)

-----------------------------------------------------------------------------
(* C8: Option.consolidate(xs) returns an array of all the values of xs in   *)
(* order iff no element is undefined, and undefined otherwise; never a      *)
(* partial array; the empty input yields the empty array.                   *)

C8_OptionConsolidate ==
    op = "Option.consolidate" =>
        LET xs == x.elems
        IN  /\ out = Ret(IF \E i \in 1..Len(xs) : xs[i] = Undefined
                         THEN Undefined ELSE Arr(xs))
            /\ xs = <<>> => out = Ret(Arr(<<>>))

C8_Witness ==
    /\ op = "Option.consolidate"
    /\ Len(x.elems) = 2
    /\ x.elems[1] = Num(0)
    /\ x.elems[2] = Undefined
    /\ out = Ret(Undefined)

-----------------------------------------------------------------------------
(* C3: the function Result.encase(fn, onThrow?) returns never throws what   *)
(* fn throws: it returns fn's value when fn returns; onThrow(e) when fn     *)
(* throws e and onThrow is given; e itself when onThrow is omitted and e is *)
(* an Error; otherwise a new Error whose message embeds the string form of  *)
(* e.                                                                       *)

\* String(v): the string form of a value that is no Error.
StringForm(v) ==
    CASE v.t = "undefined" -> "undefined"
      [] v.t = "null" -> "null"
      [] v.t = "number" -> NumberToString(v.n)
      [] v.t = "string" -> v.s
      [] v.t = "symbol" -> "Symbol(" \o v.desc \o ")"
      [] v.t = "object" -> "[object Object]"

\* v is an Error just built, with the message m.
IsNewErrorWith(v, m) ==
    /\ v.t = "object"
    /\ v.id = Len(heap)
    /\ heap[v.id].cls = "Error"
    /\ heap[v.id].message = m

C3_EncaseThreeTier ==
    op = "Result.encase" =>
        /\ fn.kind = "return" => out = Ret(fn.v)
        /\ fn.kind = "throw" =>
              /\ out # Throw(fn.v)
              /\ handler # Absent => out = ResultOf(handler)
              /\ handler = Absent /\ IsErrorObject(fn.v) => out = Ret(fn.v)
              /\ handler = Absent /\ ~IsErrorObject(fn.v) =>
                    /\ out.type = "return"
                    /\ IsNewErrorWith(out.value,
                           "caught thrown value " \o StringForm(fn.v))

-----------------------------------------------------------------------------
(* C4: the promise returned by Option.encasePromise, Result.encasePromise   *)
(* and RemoteData.encasePromise never rejects: once the input promise has   *)
(* settled and the async function has run, the returned promise is          *)
(* fulfilled.                                                               *)

C4_EncasePromiseNeverRejects ==
    /\ q.state # "rejected"
    /\ pc = "done" => q.state = "fulfilled"

-----------------------------------------------------------------------------
(* C11 (as stated): toOption(x) (and Option.fromRemoteData(x)) is x itself  *)
(* for a Success and undefined for NotAsked, Loading and a Failure;         *)
(* fromOption(x) is the NotAsked sentinel for undefined and x itself        *)
(* otherwise; fromOption(toOption(x)) is x for a Success and NotAsked for   *)
(* every other variant.  A Success is a value that is neither sentinel nor  *)
(* an error object.                                                         *)

C11_OptionRoundTrip_Original ==
    /\ op \in {"RemoteData.toOption", "Option.fromRemoteData"} =>
          out = Ret(IF IsNonSuccess(x) THEN Undefined ELSE x)
    /\ op \in {"RemoteData.fromOption", "Option.toRemoteData"} =>
          out = Ret(IF x = Undefined THEN Sym(1, "NotAsked") ELSE x)
    /\ op = "RemoteData.fromOption.toOption" =>
          out = Ret(IF IsNonSuccess(x) THEN Sym(1, "NotAsked") ELSE x)

(* C11 (amended): as stated, but fromOption(toOption(x)) is x for a Success *)
(* other than undefined; for undefined, which isSuccess accepts, and for    *)
(* every other variant it is NotAsked.                                      *)

C11_OptionRoundTrip ==
    /\ op \in {"RemoteData.toOption", "Option.fromRemoteData"} =>
          out = Ret(IF IsNonSuccess(x) THEN Undefined ELSE x)
    /\ op \in {"RemoteData.fromOption", "Option.toRemoteData"} =>
          out = Ret(IF x = Undefined THEN Sym(1, "NotAsked") ELSE x)
    /\ op = "RemoteData.fromOption.toOption" =>
          out = Ret(IF IsNonSuccess(x) \/ x = Undefined
                    THEN Sym(1, "NotAsked") ELSE x)

C11_Witness ==
    /\ op = "RemoteData.fromOption.toOption"
    /\ IsErrorObject(x)
    /\ out = Ret(Sym(1, "NotAsked"))

-----------------------------------------------------------------------------
(* C12 (as stated): Option.toResult(x, e) and Result.fromOption(x, e) are   *)
(* x itself when x is not undefined and the supplied error object e itself  *)
(* when x is undefined; Result.toOption(Result.fromOption(x, e)) is x for   *)
(* every x.                                                                 *)

C12_FromOptionRoundTrip_Original ==
    /\ op \in {"Option.toResult", "Result.fromOption"} =>
          out = Ret(IF x = Undefined THEN y ELSE x)
    /\ op = "Result.toOption.fromOption" => out = Ret(x)

(* C12 (amended): as stated, but Result.toOption(Result.fromOption(x, e))   *)
(* is x for every x that is no error object; an error object is a Some      *)
(* that fromOption returns as it is and toOption replaces by undefined.     *)

C12_FromOptionRoundTrip ==
    /\ op \in {"Option.toResult", "Result.fromOption"} =>
          out = Ret(IF x = Undefined THEN y ELSE x)
    /\ op = "Result.toOption.fromOption" =>
          out = Ret(IF IsErrorObject(x) THEN Undefined ELSE x)

C12_Witness ==
    /\ op = "Result.toOption.fromOption"
    /\ x = Undefined
    /\ IsErrorObject(y)
    /\ out = Ret(Undefined)

-----------------------------------------------------------------------------
(* C13: Option.fromNullable(x) is undefined exactly when x is null or       *)
(* undefined and x itself otherwise, so 0, "" and false are kept;           *)
(* Option.fromFalsy(x) is undefined exactly when x is falsy (false, 0, "",  *)
(* NaN, null, undefined) and x itself otherwise; the two differ exactly on  *)
(* the falsy values other than null and undefined.                          *)

IsNullish(v) == v = [t |-> "null"] \/ v = [t |-> "undefined"]

IsFalsy(v) ==
    \/ IsNullish(v)
    \/ v = [t |-> "boolean", b |-> FALSE]
    \/ v = [t |-> "number", n |-> 0]
    \/ v = [t |-> "number", nan |-> TRUE]
    \/ v = [t |-> "string", s |-> ""]

C13_NullableAndFalsy ==
    /\ op = "Option.fromNullable" =>
          /\ out.type = "return"
          /\ out.value = Undefined <=> IsNullish(x)
          /\ ~IsNullish(x) => out.value = x
    /\ op = "Option.fromFalsy" =>
          /\ out.type = "return"
          /\ out.value = Undefined <=> IsFalsy(x)
          /\ ~IsFalsy(x) => out.value = x
    /\ op = "Option.fromNullable,fromFalsy" =>
          (out.value.elems[1] # out.value.elems[2]
              <=> IsFalsy(x) /\ ~IsNullish(x))

C13_Witness ==
    /\ op = "Option.fromNullable,fromFalsy"
    /\ x = Str("")
    /\ out = Ret(Arr(<<Str(""), Undefined>>))

-----------------------------------------------------------------------------
(* C14: the function Option.encase(fn) returns never throws: called on any  *)
(* argument it calls fn once with it and returns fn's value when fn         *)
(* returns, and undefined when fn throws, whatever the thrown value.        *)

C14_OptionEncaseNeverThrows ==
    op = "Option.encase" =>
        /\ out.type = "return"
        /\ CalledOnceWith(x)
        /\ fn.kind = "return" => out.value = fn.v
        /\ fn.kind = "throw" => out.value = Undefined

C14_Witness ==
    /\ op = "Option.encase"
    /\ fn.kind = "throw"
    /\ IsErrorObject(fn.v)
    /\ out = Ret(Undefined)

-----------------------------------------------------------------------------
(* C15: RemoteData.match(x, pattern) invokes exactly one handler of the     *)
(* pattern and completes as it does: the handler keyed by the variant of x  *)
(* whenever the pattern has that key, with or without a default, and the    *)
(* default handler only when that key is missing; of an exhaustive pattern  *)
(* the default is never invoked.                                            *)

VariantOf(v) ==
    IF v = Sym(1, "NotAsked") THEN "NotAsked"
    ELSE IF v = Sym(2, "Loading") THEN "Loading"
    ELSE IF IsErrorObject(v) THEN "Failure"
    ELSE "Success"

C15_MatchDispatch ==
    op = "RemoteData.match" =>
        /\ Len(calls) = 1
        /\ calls[1].fn = IF VariantOf(x) \in pattern THEN VariantOf(x)
                         ELSE "default"
        /\ calls[1].fn \in {"Success", "Failure"} => calls[1].arg = x
        /\ out = ResultOf(fn)
        /\ {"NotAsked", "Loading", "Success", "Failure"} \subseteq pattern
              => calls[1].fn # "default"

C15_Witness ==
    /\ op = "RemoteData.match"
    /\ x = Loading_value
    /\ pattern = {"NotAsked", "Loading", "default"}
    /\ calls = <<[fn |-> "Loading", arg |-> Undefined]>>

-----------------------------------------------------------------------------
(* C16: the promise Result.encasePromise(p, onReject?) returned fulfills    *)
(* with v when p fulfills with v; when p rejects with e it fulfills with    *)
(* onReject(e) when onReject is given, with e itself when onReject is       *)
(* omitted and e is an Error, and otherwise with a new Error whose message  *)
(* embeds the string form of e.                                             *)

C16_EncasePromiseThreeTier ==
    op = "Result.encasePromise" /\ pc = "done" =>
        /\ p.state = "fulfilled" => q = Settled(Ret(p.value))
        /\ p.state = "rejected" =>
              /\ handler # Absent =>
                    /\ q = Settled(ResultOf(handler))
                    /\ calls = <<[fn |-> "handler", arg |-> p.value]>>
              /\ handler = Absent /\ IsErrorObject(p.value) =>
                    q = Settled(Ret(p.value))
              /\ handler = Absent /\ ~IsErrorObject(p.value) =>
                    /\ q.state = "fulfilled"
                    /\ IsNewErrorWith(q.value,
                           "caught rejected value " \o StringForm(p.value))

-----------------------------------------------------------------------------
(* C17: the promise returned by Option.encasePromise, Result.encasePromise  *)
(* and RemoteData.encasePromise never settles before the input promise p    *)
(* has settled: while p is pending the returned promise is pending, and a   *)
(* step that settles it starts from a state in which p has settled.         *)

IsSettled(ps) == ps.state = "fulfilled" \/ ps.state = "rejected"

C17_SettlesAfterInput ==
    [][/\ IsSettled(q') => IsSettled(p')
       /\ p'.state = "pending" /\ pc' # "idle" => q'.state = "pending"
       /\ ~IsSettled(q) /\ IsSettled(q') => IsSettled(p)]_vars

C17_Witness ==
    /\ op = "RemoteData.encasePromise"
    /\ pc = "awaiting"
    /\ p.state = "pending"
    /\ q.state = "pending"

-----------------------------------------------------------------------------
(* C18: DataError.map(e, fn), fn returning, returns a new DataError whose   *)
(* data is fn(e.data) and whose message is that of e, and leaves e as it    *)
(* was; a DataError built without a message has the default message and is  *)
(* an instance of Error and of DataError.                                   *)

\* After DataError.map: the returned object, its data and its message.
MappedDataError ==
    op = "DataError.map" /\ fn.kind = "return" =>
        /\ out.type = "return"
        /\ out.value.t = "object"
        /\ out.value # x
        /\ heap[out.value.id].cls = "DataError"
        /\ heap[out.value.id].data = fn.v
        /\ heap[out.value.id].message = heap[x.id].message
        /\ calls = <<[fn |-> "fn", arg |-> heap[x.id].data]>>

\* After DataError.of: the object built without a message.
BuiltDataError ==
    op = "DataError.of" /\ y = Undefined =>
        /\ out.type = "return"
        /\ heap[out.value.id].message =
              "This Error contains details in the 'data' field"
        /\ heap[out.value.id].data = x
        /\ Guard("isErr", out.value)
        /\ heap[out.value.id].cls = "DataError"

C18_DataErrorMap ==
    [][/\ MappedDataError'
       /\ BuiltDataError'
       /\ op' = "DataError.map" =>
             /\ heap'[x'.id] = heap[x'.id]
             /\ fn'.kind = "return" => out'.value.id > Len(heap)]_vars

C18_Witness ==
    /\ op = "DataError.map"
    /\ heap[x.id].message = "boom"
    /\ heap[x.id].data = Num(0)
    /\ fn = Returns(Loading_value)
    /\ out.value # x
    /\ heap[out.value.id] =
          [cls |-> "DataError", message |-> "boom", data |-> Loading_value]

-----------------------------------------------------------------------------
(* C19: what the client function passed to Option.ifSome, Result.ifOk,      *)
(* Result.ifErr, RemoteData.ifSuccess, caseOf or match throws, the          *)
(* combinator throws to its caller, the same value: it is never turned      *)
(* into a returned undefined, Err or Failure.                               *)

C19_ThrowsPropagate ==
    /\ op \in {"Option.ifSome", "Result.ifOk", "Result.ifErr",
               "RemoteData.ifSuccess", "Option.caseOf", "Result.caseOf",
               "RemoteData.match"}
    /\ calls # <<>>
    /\ fn.kind = "throw"
    => out = [type |-> "throw", value |-> fn.v]

C19_Witness ==
    /\ op = "RemoteData.match"
    /\ fn.kind = "throw"
    /\ IsErrorObject(fn.v)
    /\ IsErrorObject(x)
    /\ calls = <<[fn |-> "Failure", arg |-> x]>>
    /\ out = Throw(fn.v)

-----------------------------------------------------------------------------
(* C20: the request of the README example starts as NotAsked; a call of     *)
(* getDogImage sets it to Loading at once and it stays Loading until the    *)
(* fetch has settled and getDogImage resumed; when the promise of           *)
(* getDogImage settles, it fulfills, and the request is a Success (the      *)
(* message of a payload of status "success") or a Failure carrying data     *)
(* (the message and code of another payload, or "Request failed" when the   *)
(* fetch rejected or gave no payload); that promise never rejects and the   *)
(* request never is NotAsked again.                                         *)

\* The payload is one of status "success".
IsSuccessPayload(ps) ==
    /\ ps.state = "fulfilled"
    /\ ps.value.t = "json"
    /\ ps.value.status = [t |-> "string", s |-> "success"]

\* v is a Failure whose data has the message m.
IsFailureWithMessage(v, m) ==
    /\ v.t = "object"
    /\ heap[v.id].cls = "DataError"
    /\ heap[v.id].data.message = m

\* The request once the promise of getDogImage has settled.
SettledRequest ==
    op = "getDogImage" /\ pc = "done" =>
        /\ q = [state |-> "fulfilled", value |-> Undefined]
        /\ IsSuccessPayload(p) =>
              dogImageRequest = p.value.message /\ ~IsNonSuccess(dogImageRequest)
        /\ ~IsSuccessPayload(p) /\ p.state = "fulfilled" /\ p.value.t = "json" =>
              /\ IsFailureWithMessage(dogImageRequest, p.value.message)
              /\ heap[dogImageRequest.id].data.code = p.value.code
        /\ p.state = "rejected" \/ p.value.t # "json" =>
              IsFailureWithMessage(dogImageRequest,
                                   [t |-> "string", s |-> "Request failed"])

C20_RequestLifecycle ==
    /\ dogImageRequest = Sym(1, "NotAsked")
    /\ [][/\ pc = "idle" /\ pc' # "idle" => dogImageRequest' = Sym(2, "Loading")
          /\ pc' = "awaiting" => /\ dogImageRequest' = Sym(2, "Loading")
                                 /\ q'.state = "pending"
          /\ dogImageRequest' # dogImageRequest /\ pc = "awaiting" =>
                p.state \in {"fulfilled", "rejected"}
          /\ SettledRequest'
          /\ q'.state # "rejected"
          /\ dogImageRequest # Sym(1, "NotAsked") =>
                dogImageRequest' # Sym(1, "NotAsked")]_vars

C20_Witness ==
    /\ op = "getDogImage"
    /\ pc = "done"
    /\ p.state = "rejected"
    /\ IsErrorObject(p.value)
    /\ dogImageRequest # p.value
    /\ heap[dogImageRequest.id].data = RequestFailed
    /\ q.state = "fulfilled"


\* v is an ErrorValue object that carries e: what Failure(e) builds.
IsErrorValueOf(v, e) ==
    /\ v.t = "object"
    /\ heap[v.id].cls = "ErrorValue"
    /\ heap[v.id].data = e

\* A call of fromPromise has run all its jobs.
RaceOver == op = "AsyncData.fromPromise" /\ jobs = <<>>

(* C21: the promise AsyncData.fromPromise(p) returns never rejects, and once
   the jobs of the call have run it is fulfilled with the stage p was in at
   the call: NotAsked for null or undefined, Loading for a pending p, d for a
   p fulfilled with d, and Failure(e), an ErrorValue carrying e, for a p
   rejected with e. *)
C21_FromPromiseStage ==
    op = "AsyncData.fromPromise" =>
        /\ q.state # "rejected"
        /\ jobs = <<>> => q.state = "fulfilled"
        /\ q.state = "fulfilled" =>
              IF x \in {Null, Undefined} THEN q.value = AsyncData_NotAsked
              ELSE IF x.state = "pending" THEN q.value = AsyncData_Loading
              ELSE IF x.state = "fulfilled"
                   THEN q.value = x.value /\ q.value # AsyncData_Loading
              ELSE IsErrorValueOf(q.value, x.value)

C21_Witness ==
    /\ RaceOver
    /\ x \notin {Null, Undefined}
    /\ x.state = "rejected"
    /\ IsErrorValueOf(q.value, x.value)


\* The call in progress was made on a promise that was pending then.
CalledOnPending ==
    op = "AsyncData.fromPromise" /\ x.t = "promise" /\ x.state = "pending"

(* C22: after a call of fromPromise on a pending promise, once that promise
   has resolved or rejected and the jobs have run, the value reported by the
   returned promise is a Success or a Failure, no longer Loading. *)
C22_SettlesAfterLoading_Original ==
    CalledOnPending /\ Awaited(p) /\ jobs = <<>> =>
        q.state = "fulfilled" /\ q.value # AsyncData_Loading

(* C22, as the code has it: the promise returned for a pending promise
   fulfills with Loading, and a fulfilled returned promise never changes,
   whatever the underlying promise does afterwards. *)
C22_LoadingIsFinal ==
    [][CalledOnPending /\ op' = op =>
          /\ q'.state = "fulfilled" => q'.value = AsyncData_Loading
          /\ q.state = "fulfilled" => q' = q]_vars

C22_Witness ==
    /\ CalledOnPending
    /\ jobs = <<>>
    /\ p.state = "fulfilled"
    /\ q = Fulfilled(AsyncData_Loading)


\* v was built by the Failure constructor of AsyncData.
IsBuiltByFailure(v) == v.t = "object" /\ heap[v.id].cls = "ErrorValue"

(* C23: a value built by the Failure constructor satisfies isFailure and
   fails isSuccess, isNotAsked and isLoading (so it is completed); toMaybe
   gives Nothing for it, mapFailure applies fn to it, and combine returns the
   first such value of an array instead of the array. *)
C23_FailureIsFailure ==
    /\ op = "AsyncData.isType" /\ IsBuiltByFailure(x) =>
          verdict = {"isFailure", "isCompleted"}
    /\ op = "AsyncData.toMaybe" /\ IsBuiltByFailure(x) =>
          out = Ret(Undefined)
    /\ op = "AsyncData.mapFailure" /\ IsBuiltByFailure(x) =>
          calls = <<[fn |-> "fn", arg |-> x]>>
    /\ op = "AsyncData.combine" /\ Len(x.elems) > 0
          /\ IsBuiltByFailure(x.elems[1]) =>
          out = Ret(x.elems[1])


(* C24: RemoteData.orThrow(x) returns x itself when x is a Success, and
   otherwise throws, the thrown value being a Failure (an Error object). *)
C24_OrThrowThrowsFailure_Original ==
    op = "RemoteData.orThrow" =>
        IF Success_isType(x) THEN out = Ret(x)
        ELSE out.type = "throw" /\ IsErrorObject(out.value)

(* C24, as the code has it: RemoteData.orThrow(x) returns x itself when x is
   a Success and otherwise throws x itself, which is an Error object when x
   is a Failure and the sentinel symbol when x is NotAsked or Loading. *)
C24_OrThrowThrowsArgument ==
    op = "RemoteData.orThrow" =>
        /\ out = IF Success_isType(x) THEN Ret(x) ELSE Throw(x)
        /\ out.type = "throw" =>
              /\ IsErrorObject(out.value) \/ IsSentinel(out.value)
              /\ IsErrorObject(out.value) <=> Failure_isType(x)

C24_Witness ==
    /\ op = "RemoteData.orThrow"
    /\ x = Loading_value
    /\ out = Throw(Loading_value)

(* C25: RemoteData.isCompleted(x) is true exactly when x is a Success or a
   Failure, which is exactly when x is neither NotAsked nor Loading. *)
C25_IsCompleted ==
    op = "RemoteData.isCompleted" =>
        /\ out = Ret(Bool(("isSuccess" \in verdict) \/ ("isFailure" \in verdict)))
        /\ out = Ret(Bool(~(("isNotAsked" \in verdict)
                            \/ ("isLoading" \in verdict))))

C25_Witness ==
    /\ op = "RemoteData.isCompleted"
    /\ IsErrorObject(x)
    /\ verdict = {"isSome", "isErr", "isFailure"}
    /\ out = Ret(Bool(TRUE))


\* The completion and the handler invocations of a call.
Outcome(r) == [out |-> r.out, calls |-> r.calls]

\* What the call in progress did.
Observed == [out |-> out, calls |-> calls]

(* C26: unwrap called with handlers and caseOf called with a pattern that
   holds the same handlers under all the variant names invoke the same
   handler with the same argument and complete the same way (same returned
   or thrown value), for AsyncData (four variants), Result and Maybe. *)
C26_UnwrapAgreesWithCaseOf ==
    /\ op = "AsyncData.unwrap" =>
          Observed = Outcome(AsyncData2_caseOf(x, AsyncKeys, fn))
    /\ op = "AsyncData.caseOf" /\ AsyncKeys \subseteq pattern =>
          Observed = Outcome(AsyncData2_unwrap(x, fn))
    /\ op = "ResultTs.unwrap" =>
          Observed = Outcome(ResultTs_caseOf(x, {"Ok", "Err"}, fn))
    /\ op = "ResultTs.caseOf" /\ {"Ok", "Err"} \subseteq pattern =>
          Observed = Outcome(ResultTs_unwrap(x, fn))
    /\ op = "Maybe.unwrap" =>
          Observed = Outcome(Maybe_caseOf(x, {"Just", "Nothing"}, fn))
    /\ op = "Maybe.caseOf" /\ {"Just", "Nothing"} \subseteq pattern =>
          Observed = Outcome(Maybe_unwrap(x, fn))

C26_Witness ==
    /\ op = "AsyncData.unwrap"
    /\ IsErrorObject(x)
    /\ calls = <<[fn |-> "Failure", arg |-> x]>>
    /\ out = Throw(Str("Failure"))


\* t is a number that maps to a valid Date.
IsValidTime(t) == t.t = "number" /\ ~IsNaN(DateValueOf(t))

(* C27: Timestamp.isTimestamp(t) returns a boolean for every t and never
   throws: true exactly when t is a number that maps to a valid Date; and
   Timestamp.coerceTimestamp on a number that does not throws its own
   "Expected a timestamp" error. *)
C27_IsTimestampTotal ==
    /\ op = "Timestamp.isTimestamp" => out = Ret(Bool(IsValidTime(x)))
    /\ op = "Timestamp.coerceTimestamp" /\ ~IsValidTime(x) =>
          /\ out.type = "throw"
          /\ IsErrorObject(out.value)
          /\ heap[out.value.id].message =
                "Expected a timestamp for a valid Date object"


\* The lengths of the arrays passed to the call in progress.
ArgLengths == {Len(x.elems[k].elems) : k \in 1..Len(x.elems)}

(* C28: Tuple.zip of one, two or three arrays returns an array as long as
   the shortest of them, whose i-th element is the tuple of the i-th elements
   of the arrays in argument order; the arrays the caller passed are what
   they were. *)
C28_ZipShortest ==
    op = "Tuple.zip" /\ Len(x.elems) \in 1..3 =>
        /\ out.type = "return"
        /\ \A n \in ArgLengths : Len(out.value.elems) <= n
        /\ Len(out.value.elems) \in ArgLengths
        /\ \A i \in 1..Len(out.value.elems) :
              /\ Len(out.value.elems[i].elems) = Len(x.elems)
              /\ \A k \in 1..Len(x.elems) :
                    out.value.elems[i].elems[k] = x.elems[k].elems[i]

C28_Witness ==
    /\ op = "Tuple.zip"
    /\ Len(x.elems) = 3
    /\ Len(x.elems[1].elems) = 2
    /\ Len(x.elems[2].elems) = 1
    /\ Len(x.elems[3].elems) = 2
    /\ out = Ret(Arr(<<Arr(<<Num(1), Str("a"), Num(2)>>)>>))

\* The call in progress unzips the zip of two arrays of the same length.
EqualLengthRoundTrip ==
    /\ op = "Tuple.unzip(Tuple.zip)"
    /\ Len(x.elems[1].elems) = Len(x.elems[2].elems)

(* C29: for arrays a and b of equal length n, n = 0 included,
   unzip(zip(a, b)) is the pair of two arrays equal to a and b element by
   element. *)
C29_UnzipInvertsZip_Original ==
    EqualLengthRoundTrip => out = Ret(x)

(* C29, as the code has it: for arrays a and b of equal length n >= 1,
   unzip(zip(a, b)) is the pair [a, b]; for n = 0 it is the empty array [].
   A non-empty array of n pairs unzips to two arrays of length n, an empty
   array to []. *)
C29_UnzipInvertsZip ==
    /\ EqualLengthRoundTrip =>
          out = IF Len(x.elems[1].elems) >= 1 THEN Ret(x) ELSE Ret(Arr(<<>>))
    /\ op = "Tuple.unzip" /\ Len(x.elems) = 0 => out = Ret(Arr(<<>>))
    /\ op = "Tuple.unzip" /\ Len(x.elems) >= 1 /\ Len(x.elems[1].elems) = 2 =>
          /\ Len(out.value.elems) = 2
          /\ \A k \in 1..2 : Len(out.value.elems[k].elems) = Len(x.elems)

C29_Witness ==
    /\ EqualLengthRoundTrip
    /\ x = Arr(<<Arr(<<Num(1), Num(2)>>), Arr(<<Str("a"), Num(1)>>)>>)
    /\ out = Ret(x)


(* C30: Result.isErr(x) equals RemoteData.isFailure(x) for every value x;
   Result.isOk(x) equals RemoteData.isSuccess(x) for every x that is neither
   sentinel; and isOk and isSuccess disagree on the NotAsked and Loading
   sentinels and on nothing else. *)
C30_ResultAndRemoteDataAgree ==
    op = "isType" =>
        /\ ("isErr" \in verdict) <=> ("isFailure" \in verdict)
        /\ ~IsSentinel(x) =>
              (("isOk" \in verdict) <=> ("isSuccess" \in verdict))
        /\ IsSentinel(x) <=>
              ~(("isOk" \in verdict) <=> ("isSuccess" \in verdict))

C30_Witness ==
    /\ op = "isType"
    /\ x = Loading_value
    /\ "isOk" \in verdict
    /\ "isSuccess" \notin verdict
    /\ "isErr" \notin verdict
    /\ "isFailure" \notin verdict

====
